---------------------------- MODULE Spec2Model ----------------------------
(***************************************************************************)
(* A model of kubectl-ai's resource discovery, resource gathering and      *)
(* metrics-source pipeline (pkg/k8s/client.go, pkg/metrics/prometheus.go,  *)
(* cmd metrics).                                                           *)
(*                                                                         *)
(* Strings.  A Kubernetes name is an atom (a TLA+ string).  A string that  *)
(* the code splits on "/" (a resource reference, a GroupVersion) is the    *)
(* sequence of its "/"-free segments: "deploy/web" is <<"deploy","web">>,  *)
(* "a/b/c" is <<"a","b","c">>, "web" is <<"web">>.  strings.Split(s, "/")  *)
(* is then the sequence itself and every string has exactly one such       *)
(* sequence.  A result key "<ref><suffix>" is the pair <<ref, suffix>>.    *)
(***************************************************************************)
EXTENDS Integers, Sequences, FiniteSets, TLC

VARIABLES
    \* ---- Client (pkg/k8s/client.go:23-33)
    resourceCache,   \* map[string]*metav1.APIResource
    gvrCache,        \* map[string]schema.GroupVersionResource
    readers,         \* callers holding cacheMutex.RLock
    writer,          \* caller holding cacheMutex.Lock, 0 when none
    \* ---- concurrent callers of discoverResource
    pc,              \* position of each caller inside discoverResource
    tok,             \* resourceType argument of the running call
    disc,            \* what ServerPreferredResources returned to the call
    found,           \* the match the scan found (locals resource, gvr)
    ret,             \* what the call returned
    calls,           \* discoverResource calls made so far
    \* ---- one GatherResources / GatherMetricsResources call
    cluster,         \* the namespace the call reads: its objects, whether it has events
    gpc,             \* position inside the call
    gmode,           \* "resources": GatherResources, "metrics": GatherMetricsResources
    gall,            \* the all / allDeployments argument
    gref,            \* the reference being gathered (loop variable resource)
    gcoord,          \* apiResource, gvr returned by discoverResource for gref
    result,          \* the result map
    gerr,            \* the call returned an error
    glog,            \* per gathered reference: what the API answered and what was issued
    listFailed,      \* the List calls of the call (by collection) that returned an error
    warned,          \* references a warning was printed for
    \* ---- one run of the metrics command (runMetrics, NewPrometheusClient)
    rin,             \* flags and environment of the run
    rpc,             \* position inside runMetrics / NewPrometheusClient
    svc,             \* what detectPrometheusService returned
    finalURL,        \* local finalURL of NewPrometheusClient
    pclient,         \* the PrometheusClient built by the constructor
    perr,            \* the constructor returned an error
    deferred,        \* runMetrics has registered defer prometheusClient.Close()
    rerr,            \* what runMetrics returned ("none": nil, "running": not yet)
    tunnel,          \* the kubectl port-forward subprocess
    probed,          \* the liveness probe made: the URL asked and the answer
    lookups,         \* Service Get calls made by the run
    started,         \* subprocesses started by the run
    \* ---- one PrometheusClient.GatherMetrics call
    cin,             \* its arguments: the resources and the duration string
    cpc,             \* position inside GatherMetrics / collectResourceMetrics
    cres,            \* index of the resource of the current iteration
    cnow,            \* the clock (whole minutes)
    cend,            \* local endTime of collectResourceMetrics
    cstart,          \* local startTime of collectResourceMetrics
    cq,              \* index of the catalog query of the current iteration
    cvalues,         \* local values: the series the primary query returned
    cmetrics,        \* local metrics: the map collectResourceMetrics builds
    cdata,           \* metricsData: the map GatherMetrics builds
    cerr,            \* what GatherMetrics returned ("running": not yet)
    clog,            \* the range queries issued by the call
    \* ---- one application of a pure function
    fpc,             \* "start" before the application, "applied" after
    fin,             \* the function and its argument
    fout,            \* what it returned
    \* ---- one AnalyzeMetrics call and the display of its result
    apc,             \* "idle", "range", "display", "done"
    request,         \* the *AnalysisRequest
    atodo,           \* keys of request.MetricsData the range loop has not visited
    results,         \* local results of AnalyzeMetrics
    analysis,        \* the *AnalysisResult AnalyzeMetrics returned
    aerr,            \* the error it returned ("running": not yet)
    printed,         \* the sections displayMetricsHuman has printed
    answers,         \* what the cluster and the LLM answered for each entry analyzed
    \* ---- the API server, as seen from the client
    issued           \* the requests sent to the Kubernetes API: verb and resource

vars == <<resourceCache, gvrCache, readers, writer, pc, tok, disc, found, ret, calls,
          cluster, gpc, gmode, gall, gref, gcoord, result, gerr, glog, listFailed, warned,
          rin, rpc, svc, finalURL, pclient, perr, deferred, rerr, tunnel, probed, lookups, started,
          cin, cpc, cres, cnow, cend, cstart, cq, cvalues, cmetrics, cdata, cerr, clog,
          fpc, fin, fout, apc, request, atodo, results, analysis, aerr, printed, answers, issued>>

discVars == <<pc, tok, disc, found, ret, calls, readers, writer>>

gatherVars == <<cluster, gpc, gmode, gall, gref, gcoord, result, gerr, glog, listFailed, warned>>

runVars == <<rin, rpc, svc, finalURL, pclient, perr, deferred, rerr, tunnel, probed, lookups, started>>

collectVars == <<cin, cpc, cres, cnow, cend, cstart, cq, cvalues, cmetrics, cdata, cerr, clog>>

pureVars == <<fpc, fin, fout>>

analyzeVars == <<apc, request, atodo, results, analysis, aerr, printed, answers>>

-----------------------------------------------------------------------------
(* Bounds *)

\* concurrent callers of discoverResource on one Client
NumCallers == 2
\* discoverResource calls made in one run, over all callers
MaxCalls == 3
\* references passed to one gather call
MaxRefs == 2

Callers == 1..NumCallers

-----------------------------------------------------------------------------
(* Strings *)

\* strings.ToLower on the names of the model: to-lower written out for the
\* names that hold an upper-case letter; every other name is lower-case.
ToLower(s) ==
    CASE s = "WD" -> "wd"
      [] s = "Widgets" -> "widgets"
      [] s = "Deploy" -> "deploy"
      [] s = "Deployment" -> "deployment"
      [] s = "StatefulSet" -> "statefulset"
      [] s = "DaemonSet" -> "daemonset"
      [] s = "Secret" -> "secret"
      [] s = "Widget" -> "widget"
      [] s = "OpenAI" -> "openai"
      [] s = "Claude" -> "claude"
      [] OTHER -> s

\* strings.EqualFold: equality under Unicode simple case folding; on the
\* ASCII names of the model that is equality of the lower-cased strings.
EqualFold(a, b) == ToLower(a) = ToLower(b)

RECURSIVE containsFrom(_, _, _)
containsFrom(slice, i, str) ==
    IF i > Len(slice) THEN FALSE
    ELSE IF EqualFold(slice[i], str) THEN TRUE
    ELSE containsFrom(slice, i + 1, str)

containsStringIgnoreCase(slice, str) == containsFrom(slice, 1, str)

\* schema.ParseGroupVersion: "" and "/" give the empty GroupVersion, no "/"
\* gives a version of the core group, one "/" gives group and version, more
\* than one "/" is an error.
ParseGroupVersion(gv) ==
    CASE Len(gv) = 1 -> [ok |-> TRUE, Group |-> "", Version |-> gv[1]]
      [] Len(gv) = 2 -> [ok |-> TRUE, Group |-> gv[1], Version |-> gv[2]]
      [] OTHER -> [ok |-> FALSE, Group |-> "", Version |-> ""]

-----------------------------------------------------------------------------
(* The cluster's API resources, as the discovery API reports them *)

R_secrets == [Name |-> "secrets", SingularName |-> "secret", ShortNames |-> <<>>, Namespaced |-> TRUE]
R_pods == [Name |-> "pods", SingularName |-> "pod", ShortNames |-> <<"po">>, Namespaced |-> TRUE]
R_nodes == [Name |-> "nodes", SingularName |-> "node", ShortNames |-> <<"no">>, Namespaced |-> FALSE]
R_deployments == [Name |-> "deployments", SingularName |-> "deployment", ShortNames |-> <<"deploy">>, Namespaced |-> TRUE]
R_statefulsets == [Name |-> "statefulsets", SingularName |-> "statefulset", ShortNames |-> <<"sts">>, Namespaced |-> TRUE]
R_daemonsets == [Name |-> "daemonsets", SingularName |-> "daemonset", ShortNames |-> <<"ds">>, Namespaced |-> TRUE]
R_gadgets == [Name |-> "gadgets", SingularName |-> "gadget", ShortNames |-> <<"gd", "wd">>, Namespaced |-> TRUE]
R_widgets == [Name |-> "widgets", SingularName |-> "widget", ShortNames |-> <<"wg", "wd">>, Namespaced |-> TRUE]
R_widgetsOther == [Name |-> "widgets", SingularName |-> "widget", ShortNames |-> <<>>, Namespaced |-> FALSE]

G_core == [GroupVersion |-> <<"v1">>, APIResources |-> <<R_pods, R_secrets, R_nodes>>]
G_apps == [GroupVersion |-> <<"apps", "v1">>, APIResources |-> <<R_deployments, R_statefulsets, R_daemonsets>>]
G_example == [GroupVersion |-> <<"example.com", "v1">>, APIResources |-> <<R_gadgets, R_widgets>>]
G_other == [GroupVersion |-> <<"other.io", "v1beta1">>, APIResources |-> <<R_widgetsOther>>]

\* What one ServerPreferredResources call can return: the full list, or an
\* error together with a partial list (the groups that failed are missing),
\* with an empty list (every group failed) or with a nil list.
DiscoveryOutcomes ==
    { [isNil |-> FALSE, err |-> FALSE, list |-> <<G_core, G_apps, G_example, G_other>>],
      [isNil |-> FALSE, err |-> TRUE, list |-> <<G_core, G_apps, G_other>>],
      [isNil |-> FALSE, err |-> TRUE, list |-> <<G_example, G_other>>],
      [isNil |-> FALSE, err |-> TRUE, list |-> <<G_core>>],
      [isNil |-> FALSE, err |-> TRUE, list |-> <<>>],
      [isNil |-> TRUE, err |-> TRUE, list |-> <<>>] }

NoOutcome == [isNil |-> TRUE, err |-> FALSE, list |-> <<>>]

\* resource types the concurrent callers ask for
CallerTokens == {"WD", "widgets", "deploy", "nosuch"}

-----------------------------------------------------------------------------
(* discoverResource *)

NoAPI == [Name |-> "", SingularName |-> "", ShortNames |-> <<>>, Namespaced |-> FALSE]
NoGVR == [Group |-> "", Version |-> "", Resource |-> ""]
NoMatch == [found |-> FALSE, api |-> NoAPI, gvr |-> NoGVR]
NoRet == [status |-> "none", api |-> NoAPI, gvr |-> NoGVR]

Put(m, k, v) == [x \in (DOMAIN m) \cup {k} |-> IF x = k THEN v ELSE m[x]]

\* client.go:114-116: is this our resource (by name, singular, or short names)
resourceMatches(resource, resourceType) ==
    \/ EqualFold(resource.Name, resourceType)
    \/ EqualFold(resource.SingularName, resourceType)
    \/ containsStringIgnoreCase(resource.ShortNames, resourceType)

\* client.go:112-133: the inner loop over one group's resources
RECURSIVE scanResources(_, _, _, _)
scanResources(rs, i, gv, resourceType) ==
    IF i > Len(rs) THEN NoMatch
    ELSE IF resourceMatches(rs[i], resourceType)
         THEN [found |-> TRUE, api |-> rs[i],
               gvr |-> [Group |-> gv.Group, Version |-> gv.Version, Resource |-> rs[i].Name]]
         ELSE scanResources(rs, i + 1, gv, resourceType)

\* client.go:106-134: the outer loop over the API groups from group g on
RECURSIVE scanGroupsFrom(_, _, _)
scanGroupsFrom(list, g, resourceType) ==
    IF g > Len(list) THEN NoMatch
    ELSE LET gv == ParseGroupVersion(list[g].GroupVersion) IN
         IF ~gv.ok THEN scanGroupsFrom(list, g + 1, resourceType)
         ELSE LET r == scanResources(list[g].APIResources, 1, gv, resourceType) IN
              IF r.found THEN r ELSE scanGroupsFrom(list, g + 1, resourceType)

\* a scan that keeps going after a match: the last match wins
RECURSIVE scanGroupsLast(_, _, _)
scanGroupsLast(list, g, resourceType) ==
    IF g > Len(list) THEN NoMatch
    ELSE LET later == scanGroupsLast(list, g + 1, resourceType)
             gv == ParseGroupVersion(list[g].GroupVersion)
             r == scanResources(list[g].APIResources, 1, gv, resourceType)
         IN IF later.found THEN later ELSE IF gv.ok THEN r ELSE NoMatch

scanGroups_LastWins(list, resourceType) == scanGroupsLast(list, 1, resourceType)

scanGroups(list, resourceType) == scanGroupsFrom(list, 1, resourceType)

\* any discovery error fails the call, partial list or not
discoveryFails_AnyError(o) == o.err

\* client.go:98-103: the discovery error fails the call only with a nil list
discoveryFails(o) == o.err /\ o.isNil

\* client.go:89: the cache lookup
cacheHit(resourceType) == resourceType \in DOMAIN resourceCache

\* client.go:90: gvr := c.gvrCache[resourceType] (the zero value when absent)
cachedGvr(resourceType) ==
    IF resourceType \in DOMAIN gvrCache THEN gvrCache[resourceType] ELSE NoGVR

\* a write lock that does not wait for the readers to leave
canLock_IgnoreReaders == writer = 0

\* sync.RWMutex: Lock is granted when nobody holds the mutex
canLock == writer = 0 /\ readers = {}

\* a read lock that does not wait for the writer to leave
canRLock_IgnoreWriter == TRUE

\* sync.RWMutex: RLock is granted when no writer holds the mutex
canRLock == writer = 0

\* a request to the Kubernetes API server: its verb and the resource addressed
Request(verb, resource) == [verb |-> verb, resource |-> resource]

\* client.go:97: discovery.ServerPreferredResources
serverPreferredResources == Request("discovery", "preferredResources")

\* a typed Get replaced by an Update of the object
typedGet_Update(kind) == Request("update", kind)

\* client.go:216-288, 503, prometheus.go:173, part_000:239-264: Get of the typed clientset
typedGet(kind) == Request("get", kind)

\* client.go:190-192: Get of the dynamic client
dynamicGet(resource) == Request("get", resource)

\* client.go:302-332, 345, 369, 373, 459, 560, 579, 606: List of the typed clientset
typedList(kind) == Request("list", kind)

\* the request is sent
Send(requests) == issued' = issued \cup requests

\* a caller enters discoverResource(t)
Call(p, t) ==
    /\ pc[p] = "idle"
    /\ calls < MaxCalls
    /\ pc' = [pc EXCEPT ![p] = "rlock"]
    /\ tok' = [tok EXCEPT ![p] = t]
    /\ calls' = calls + 1
    /\ disc' = [disc EXCEPT ![p] = NoOutcome]
    /\ found' = [found EXCEPT ![p] = NoMatch]
    /\ ret' = [ret EXCEPT ![p] = NoRet]
    /\ UNCHANGED <<resourceCache, gvrCache, readers, writer>>
    /\ UNCHANGED <<gatherVars, runVars, collectVars, pureVars, analyzeVars>>
    /\ UNCHANGED issued

\* client.go:88
RLock(p) ==
    /\ pc[p] = "rlock"
    /\ canRLock
    /\ readers' = readers \cup {p}
    /\ pc' = [pc EXCEPT ![p] = "rheld"]
    /\ UNCHANGED <<resourceCache, gvrCache, writer, tok, disc, found, ret, calls>>
    /\ UNCHANGED <<gatherVars, runVars, collectVars, pureVars, analyzeVars>>
    /\ UNCHANGED issued

\* client.go:89-94: read the cache under the read lock, release it, and
\* return on a hit
CacheRead(p) ==
    /\ pc[p] = "rheld"
    /\ readers' = readers \ {p}
    /\ IF cacheHit(tok[p])
       THEN /\ ret' = [ret EXCEPT ![p] = [status |-> "hit", api |-> resourceCache[tok[p]],
                                          gvr |-> cachedGvr(tok[p])]]
            /\ pc' = [pc EXCEPT ![p] = "idle"]
       ELSE /\ pc' = [pc EXCEPT ![p] = "discover"]
            /\ ret' = ret
    /\ UNCHANGED <<resourceCache, gvrCache, writer, tok, disc, found, calls>>
    /\ UNCHANGED <<gatherVars, runVars, collectVars, pureVars, analyzeVars>>
    /\ UNCHANGED issued

\* client.go:96-136: the discovery call and the scan of what it returned
Discover(p, o) ==
    /\ pc[p] = "discover"
    /\ disc' = [disc EXCEPT ![p] = o]
    /\ IF discoveryFails(o)
       THEN /\ ret' = [ret EXCEPT ![p] = [status |-> "discoverError", api |-> NoAPI, gvr |-> NoGVR]]
            /\ pc' = [pc EXCEPT ![p] = "idle"]
            /\ found' = found
       ELSE LET r == scanGroups(o.list, tok[p]) IN
            IF r.found
            THEN /\ found' = [found EXCEPT ![p] = r]
                 /\ pc' = [pc EXCEPT ![p] = "wlock"]
                 /\ ret' = ret
            ELSE /\ ret' = [ret EXCEPT ![p] = [status |-> "notFound", api |-> NoAPI, gvr |-> NoGVR]]
                 /\ pc' = [pc EXCEPT ![p] = "idle"]
                 /\ found' = found
    /\ UNCHANGED <<resourceCache, gvrCache, readers, writer, tok, calls>>
    /\ UNCHANGED <<gatherVars, runVars, collectVars, pureVars, analyzeVars>>
    /\ Send({serverPreferredResources})

\* client.go:126
Lock(p) ==
    /\ pc[p] = "wlock"
    /\ canLock
    /\ writer' = p
    /\ pc' = [pc EXCEPT ![p] = "wheld"]
    /\ UNCHANGED <<resourceCache, gvrCache, readers, tok, disc, found, ret, calls>>
    /\ UNCHANGED <<gatherVars, runVars, collectVars, pureVars, analyzeVars>>
    /\ UNCHANGED issued

\* client.go:127
InsertResource(p) ==
    /\ pc[p] = "wheld"
    /\ resourceCache' = Put(resourceCache, tok[p], found[p].api)
    /\ pc' = [pc EXCEPT ![p] = "wheld2"]
    /\ UNCHANGED <<gvrCache, readers, writer, tok, disc, found, ret, calls>>
    /\ UNCHANGED <<gatherVars, runVars, collectVars, pureVars, analyzeVars>>
    /\ UNCHANGED issued

\* client.go:128-131
InsertGvrUnlock(p) ==
    /\ pc[p] = "wheld2"
    /\ gvrCache' = Put(gvrCache, tok[p], found[p].gvr)
    /\ writer' = 0
    /\ ret' = [ret EXCEPT ![p] = [status |-> "found", api |-> found[p].api, gvr |-> found[p].gvr]]
    /\ pc' = [pc EXCEPT ![p] = "idle"]
    /\ UNCHANGED <<resourceCache, readers, tok, disc, found, calls>>
    /\ UNCHANGED <<gatherVars, runVars, collectVars, pureVars, analyzeVars>>
    /\ UNCHANGED issued

EmptyMap == [x \in {} |-> NoAPI]

\* no Service was detected
NoSvc == [ok |-> FALSE, name |-> "", ns |-> "", port |-> 0, gets |-> 0]

\* the nil *PrometheusClient
NoClient == [url |-> <<>>, portForwardCmd |-> FALSE, localPort |-> "", isPortForward |-> FALSE]

NoInput == [url |-> <<>>, ns |-> "", all |-> FALSE, resources |-> 0,
            inCluster |-> FALSE, services |-> {}]

\* no probe was made
NoProbe == [url |-> <<>>, answer |-> "none"]

\* no metrics command is running
RunIdle ==
    /\ rin = NoInput
    /\ rpc = "idle"
    /\ svc = NoSvc
    /\ finalURL = <<>>
    /\ pclient = NoClient
    /\ perr = FALSE
    /\ deferred = FALSE
    /\ rerr = "running"
    /\ tunnel = "none"
    /\ probed = NoProbe
    /\ lookups = 0
    /\ started = 0

\* no GatherMetrics call is running
CollectIdle ==
    /\ cin = [resources |-> <<>>, duration |-> <<>>]
    /\ cpc = "idle"
    /\ cres = 0
    /\ cnow = 0
    /\ cend = 0
    /\ cstart = 0
    /\ cq = 0
    /\ cvalues = <<>>
    /\ cmetrics = EmptyMap
    /\ cdata = EmptyMap
    /\ cerr = "running"
    /\ clog = {}

\* no pure function is being applied
PureIdle ==
    /\ fpc = "idle"
    /\ fin = [f |-> "none", arg |-> <<>>]
    /\ fout = <<>>

\* the nil *AnalysisResult
NoAnalysis == [nil |-> TRUE]

\* no AnalyzeMetrics call is running
AnalyzeIdle ==
    /\ apc = "idle"
    /\ request = [MetricsData |-> EmptyMap, AnalyzeScaling |-> FALSE, HPAAnalysis |-> FALSE,
                  KEDAAnalysis |-> FALSE]
    /\ atodo = {}
    /\ results = EmptyMap
    /\ analysis = NoAnalysis
    /\ aerr = "running"
    /\ printed = {}
    /\ answers = EmptyMap

\* no gather call is running
GatherIdle ==
    /\ cluster = [objs |-> {}, events |-> FALSE]
    /\ gpc = "idle"
    /\ gmode = "resources"
    /\ gall = FALSE
    /\ gref = <<>>
    /\ gcoord = NoRet
    /\ result = EmptyMap
    /\ gerr = FALSE
    /\ glog = EmptyMap
    /\ listFailed = {}
    /\ warned = {}

InitDiscover ==
    /\ issued = {}
    /\ resourceCache = EmptyMap
    /\ gvrCache = EmptyMap
    /\ readers = {}
    /\ writer = 0
    /\ pc = [p \in Callers |-> "idle"]
    /\ tok = [p \in Callers |-> "nosuch"]
    /\ disc = [p \in Callers |-> NoOutcome]
    /\ found = [p \in Callers |-> NoMatch]
    /\ ret = [p \in Callers |-> NoRet]
    /\ calls = 0
    /\ GatherIdle
    /\ RunIdle
    /\ CollectIdle
    /\ PureIdle
    /\ AnalyzeIdle

NextDiscover ==
    \E p \in Callers :
          \/ \E t \in CallerTokens : Call(p, t)
          \/ RLock(p)
          \/ CacheRead(p)
          \/ \E o \in DiscoveryOutcomes : Discover(p, o)
          \/ Lock(p)
          \/ InsertResource(p)
          \/ InsertGvrUnlock(p)

SpecDiscover == InitDiscover /\ [][NextDiscover]_vars

-----------------------------------------------------------------------------
(* Claims about discoverResource *)

\* the positions <<group, resource>> of a discovered list, and their order
Positions(L) ==
    UNION { { <<g, i>> : i \in 1..Len(L[g].APIResources) } : g \in 1..Len(L) }

NamesOf(r) == {r.Name, r.SingularName} \cup { r.ShortNames[k] : k \in DOMAIN r.ShortNames }

MatchesToken(r, t) == \E n \in NamesOf(r) : ToLower(n) = ToLower(t)

MatchingPositions(L, t) ==
    { a \in Positions(L) : MatchesToken(L[a[1]].APIResources[a[2]], t) }

NotAfter(a, b) == a[1] < b[1] \/ (a[1] = b[1] /\ a[2] <= b[2])

FirstMatch(L, t) ==
    LET M == MatchingPositions(L, t)
        a == CHOOSE x \in M : \A y \in M : NotAfter(x, y)
        gv == L[a[1]].GroupVersion
        r == L[a[1]].APIResources[a[2]]
    IN [api |-> r,
        gvr |-> [Group |-> IF Len(gv) = 2 THEN gv[1] ELSE "",
                 Version |-> gv[Len(gv)],
                 Resource |-> r.Name]]

InWriterSection(p) == pc[p] \in {"wheld", "wheld2"}
PastScan(p) == pc[p] \in {"wlock", "wheld", "wheld2"} \/ ret[p].status = "found"
Scanned(p) == pc[p] \in {"wlock", "wheld", "wheld2"} \/ ret[p].status \in {"found", "notFound"}

\* C4 (as claimed): no step removes or changes an entry that the cache holds,
\* whatever the interleaving of the callers.
C4_CachedEntryNeverChanges ==
    [][\A t \in DOMAIN resourceCache :
          /\ t \in DOMAIN resourceCache'
          /\ resourceCache'[t] = resourceCache[t]
          /\ t \in DOMAIN gvrCache => (t \in DOMAIN gvrCache' /\ gvrCache'[t] = gvrCache[t])]_vars

\* the step of caller p at its current position, and whether p holds the mutex
StepOf(p) ==
    \/ RLock(p) \/ CacheRead(p) \/ (\E o \in DiscoveryOutcomes : Discover(p, o))
    \/ Lock(p) \/ InsertResource(p) \/ InsertGvrUnlock(p)

Holds(p) == pc[p] = "rheld" \/ InWriterSection(p)

\* C5: a cache insert excludes every read and every other insert; the mutex is
\* held exactly by the callers inside a critical section, so none is held
\* during the discovery call and every path has released what it took; a
\* caller that waits for the mutex waits for a holder that can step; and a
\* call that returns a coordinate from its own scan (two racing callers
\* included) returns a resource of the list it discovered that matches its
\* token.
C5_LockDiscipline ==
    /\ \A p \in Callers : \A q \in Callers \ {p} :
          InWriterSection(p) => ~Holds(q)
    /\ readers = { p \in Callers : pc[p] = "rheld" }
    /\ \A p \in Callers : (writer = p) <=> InWriterSection(p)
    /\ writer \in Callers \cup {0}
    /\ \A p \in Callers : pc[p] = "discover" => (p \notin readers /\ writer # p)
    /\ \A p \in Callers : pc[p] # "idle" =>
          \/ ENABLED StepOf(p)
          \/ \E q \in Callers \ {p} : Holds(q) /\ ENABLED StepOf(q)
    /\ \A p \in Callers : ret[p].status = "found" =>
          /\ MatchesToken(ret[p].api, tok[p])
          /\ \E a \in Positions(disc[p].list) :
                /\ disc[p].list[a[1]].APIResources[a[2]] = ret[p].api
                /\ ParseGroupVersion(disc[p].list[a[1]].GroupVersion).Group = ret[p].gvr.Group
                /\ ParseGroupVersion(disc[p].list[a[1]].GroupVersion).Version = ret[p].gvr.Version
          /\ ret[p].gvr.Resource = ret[p].api.Name

\* two callers raced for the same uncached token and both returned a match
C5_Witness ==
    \E p \in Callers : \E q \in Callers \ {p} :
        /\ tok[p] = tok[q]
        /\ ret[p].status = "found" /\ ret[q].status = "found"

\* two callers read the cache at the same time
C5_ReadersOverlap == Cardinality(readers) >= 2

\* C6: on a cache miss the call returns the first matching resource in group
\* order, then resource order, matching plural, singular or short name
\* case-insensitively; the insert stores it under the token as given; the
\* not-found error is returned exactly when no group of the list holds a match.
C6_StateInv ==
    \A p \in Callers :
        /\ PastScan(p) =>
              /\ MatchingPositions(disc[p].list, tok[p]) # {}
              /\ found[p].api = FirstMatch(disc[p].list, tok[p]).api
              /\ found[p].gvr = FirstMatch(disc[p].list, tok[p]).gvr
        /\ ret[p].status = "found" => (ret[p].api = found[p].api /\ ret[p].gvr = found[p].gvr)
        /\ ret[p].status = "notFound" => MatchingPositions(disc[p].list, tok[p]) = {}
        /\ (Scanned(p) /\ MatchingPositions(disc[p].list, tok[p]) = {}) => ret[p].status = "notFound"

C6_InsertStep ==
    \A p \in Callers :
        (pc[p] \in {"wlock", "wheld", "wheld2"} /\ pc'[p] = "idle") =>
            /\ pc[p] = "wheld2"
            /\ tok[p] \in DOMAIN resourceCache' /\ resourceCache'[tok[p]] = found[p].api
            /\ tok[p] \in DOMAIN gvrCache' /\ gvrCache'[tok[p]] = found[p].gvr

C6_FirstMatchWins == []C6_StateInv /\ [][C6_InsertStep]_vars

\* a token with matches in two groups was resolved to the first of them
C6_Witness ==
    \E p \in Callers :
        /\ ret[p].status = "found"
        /\ Cardinality({ a[1] : a \in MatchingPositions(disc[p].list, tok[p]) }) >= 2
        /\ tok[p] \in DOMAIN gvrCache

\* C7: an error that comes with a non-nil (partial) list does not fail the
\* call: the partial list is scanned and a match in it is returned; the
\* discovery error fails the call exactly when the list is nil.
C7_PartialDiscovery ==
    \A p \in Callers :
        /\ (disc[p].err /\ ~disc[p].isNil) =>
              /\ ret[p].status # "discoverError"
              /\ Scanned(p)
              /\ MatchingPositions(disc[p].list, tok[p]) # {} =>
                    (PastScan(p) /\ found[p].api = FirstMatch(disc[p].list, tok[p]).api)
        /\ ret[p].status = "discoverError" <=> (disc[p].err /\ disc[p].isNil)

\* a call got an error with a partial list and still returned a match
C7_Witness ==
    \E p \in Callers :
        disc[p].err /\ ~disc[p].isNil /\ ret[p].status = "found"

\* the resources the discovery API reports, each with the coordinate built
\* from its own group
ServedPairs ==
    UNION { { [api |-> g.APIResources[i],
               gvr |-> [Group |-> IF Len(g.GroupVersion) = 2 THEN g.GroupVersion[1] ELSE "",
                        Version |-> g.GroupVersion[Len(g.GroupVersion)],
                        Resource |-> g.APIResources[i].Name]] : i \in 1..Len(g.APIResources) } :
            g \in {G_core, G_apps, G_example, G_other} }

\* the two maps have the same keys and each key's two entries are one pair
Paired ==
    /\ DOMAIN resourceCache = DOMAIN gvrCache
    /\ \A t \in DOMAIN resourceCache :
          [api |-> resourceCache[t], gvr |-> gvrCache[t]] \in ServedPairs

\* C29: in every state a lookup can observe (no writer is inside its
\* section, or a reader holds the lock) a token is a key of resourceCache if
\* and only if it is a key of gvrCache and its two entries describe the same
\* discovered resource; so does every pair a lookup returned from the cache
C29_CachesPaired ==
    /\ (writer = 0 \/ readers # {}) => Paired
    /\ \A p \in Callers :
          ret[p].status = "hit" => [api |-> ret[p].api, gvr |-> ret[p].gvr] \in ServedPairs

\* a reader holds the lock over a cache whose "widgets" entry was written
\* twice, by two callers that had found different resources
C29_Witness ==
    /\ readers # {}
    /\ "widgets" \in DOMAIN resourceCache
    /\ ~resourceCache["widgets"].Namespaced
    /\ \E p \in Callers :
          ret[p].status = "found" /\ tok[p] = "widgets" /\ ret[p].api.Namespaced

-----------------------------------------------------------------------------
(* The namespace a gather call reads *)

NoData == ""

Obj(kind, group, resource, namespaced, name, data, selector, app, targetKind, targetName) ==
    [kind |-> kind, group |-> group, resource |-> resource, namespaced |-> namespaced,
     name |-> name, data |-> data, selector |-> selector, app |-> app,
     targetKind |-> targetKind, targetName |-> targetName]

NoObj == Obj("", "", "", FALSE, "", NoData, "none", "", "", "")

\* selector: "matchLabels" when the object has spec.selector.matchLabels,
\* "plain" when it has a spec.selector without matchLabels, "none" otherwise;
\* app: the label the selector asks for (for a Pod: the label it carries).
O_web == Obj("Deployment", "apps", "deployments", TRUE, "web", NoData, "matchLabels", "web", "", "")
O_db == Obj("StatefulSet", "apps", "statefulsets", TRUE, "db", NoData, "matchLabels", "web", "", "")
O_agent == Obj("DaemonSet", "apps", "daemonsets", TRUE, "agent", NoData, "matchLabels", "web", "", "")
O_creds == Obj("Secret", "", "secrets", TRUE, "creds", "hunter2", "none", "", "", "")
O_pod == Obj("Pod", "", "pods", TRUE, "web-1", NoData, "none", "web", "", "")
O_svc == Obj("Service", "", "services", TRUE, "web", NoData, "plain", "web", "", "")
O_cfg == Obj("ConfigMap", "", "configmaps", TRUE, "cfg", NoData, "none", "", "", "")
O_ing == Obj("Ingress", "networking.k8s.io", "ingresses", TRUE, "ing", NoData, "none", "", "", "")
O_hpa == Obj("HorizontalPodAutoscaler", "autoscaling", "horizontalpodautoscalers", TRUE, "web-hpa",
             NoData, "none", "", "Deployment", "web")
O_w1 == Obj("Widget", "example.com", "widgets", TRUE, "w1", NoData, "matchLabels", "web", "", "")
O_g1 == Obj("Gadget", "example.com", "gadgets", TRUE, "g1", NoData, "plain", "web", "", "")
O_n1 == Obj("Node", "", "nodes", FALSE, "n1", NoData, "none", "", "", "")

FullNs == {O_web, O_db, O_agent, O_creds, O_pod, O_svc, O_cfg, O_ing, O_hpa, O_w1, O_g1, O_n1}
SparseNs == {O_web, O_db, O_creds, O_hpa, O_w1}

Clusters ==
    { [objs |-> FullNs, events |-> TRUE],
      [objs |-> SparseNs, events |-> TRUE],
      [objs |-> {}, events |-> FALSE] }

\* references a caller may pass ("type/name" as its "/"-free segments)
RefUniverse ==
    { <<"deploy", "web">>, <<"deployment", "web">>, <<"Secret", "creds">>,
      <<"sts", "db">>, <<"widget", "w1">>, <<"gd", "g1">>, <<"node", "n1">>,
      <<"pod", "ghost">>, <<"nosuch", "x">>, <<"web">>, <<"deploy", "web", "x">> }

\* values stored in the result map
Val(form, obj, items, events) == [form |-> form, obj |-> obj, items |-> items, events |-> events]

Key(ref, suffix) == <<ref, suffix>>

\* typed clientset: Get of a namespaced object by kind and name
typedFound(kind, name) ==
    { o \in cluster.objs : o.kind = kind /\ o.name = name /\ o.namespaced }

\* dynamic client: Get by GroupVersionResource, in the namespace or cluster-wide
dynamicFound(gvr, namespaced, name) ==
    { o \in cluster.objs : o.group = gvr.Group /\ o.resource = gvr.Resource
                           /\ o.name = name /\ o.namespaced = namespaced }

\* typed clientset: List of one kind in the namespace (the names)
listNames(kind) == { o.name : o \in { x \in cluster.objs : x.kind = kind } }

\* CoreV1().Pods(ns).List with the label selector app=<app>
listPods(app) == { o.name : o \in { x \in cluster.objs : x.kind = "Pod" /\ x.app = app } }

\* CoreV1().Events(ns).List
listEvents == IF cluster.events THEN {"ev1"} ELSE {}

\* client.go:214-297: the switch of gatherNativeResource
nativeKind(resourceType) ==
    CASE resourceType \in {"deployment", "deploy", "deployments"} -> "Deployment"
      [] resourceType \in {"pod", "pods", "po"} -> "Pod"
      [] resourceType \in {"service", "services", "svc"} -> "Service"
      [] resourceType \in {"configmap", "configmaps", "cm"} -> "ConfigMap"
      [] resourceType \in {"secret", "secrets"} -> "Secret"
      [] resourceType \in {"statefulset", "statefulsets", "sts"} -> "StatefulSet"
      [] resourceType \in {"daemonset", "daemonsets", "ds"} -> "DaemonSet"
      [] resourceType \in {"ingress", "ingresses", "ing"} -> "Ingress"
      [] resourceType \in {"hpa", "horizontalpodautoscaler", "horizontalpodautoscalers"} -> "HorizontalPodAutoscaler"
      [] OTHER -> "none"

\* a reference with a trailing part is taken for its first two parts
validRef_AtLeastTwo(parts) == Len(parts) >= 2

\* client.go:168-171, 427-430: exactly two parts
validRef(parts) == Len(parts) = 2

\* client.go:258-260: the typed Secret is stored with Data = nil
redact(o) == IF o.kind = "Secret" THEN [o EXCEPT !.data = NoData] ELSE o

\* client.go:387-390: spec.selector is present
hasSelector(o) == o.selector # "none"

\* client.go:351-354: spec.selector.matchLabels is present
hasMatchLabels(o) == o.selector = "matchLabels"

NewLog == [via |-> "none", obj |-> NoObj, podsIssued |-> FALSE, podsOk |-> FALSE, clean |-> TRUE]

resourceType == ToLower(gref[1])
resourceName == gref[2]

-----------------------------------------------------------------------------
(* GatherResources, gatherResource, gatherNativeResource, gatherAllResources *)

LogWith(field, v) == [glog EXCEPT ![gref] = [@ EXCEPT ![field] = v]]

\* where the loop goes once gatherResource has returned nil
afterGather == IF gmode = "metrics" THEN "getMetrics" ELSE "loop"

\* the locals of one iteration (resource, apiResource, gvr) end with it
Locals(next, ref, coord) ==
    IF next = "loop" THEN gref' = <<>> /\ gcoord' = NoRet
    ELSE gref' = ref /\ gcoord' = coord

\* client.go:150-155 (403-408) and 167-174 (426-433): the loop takes the next
\* reference and splits it; a malformed one is an error, which the loop prints
NextRef(ref) ==
    /\ gpc \in {"start", "loop"}
    /\ ~gall
    /\ ref \notin DOMAIN glog
    /\ Cardinality(DOMAIN glog) < MaxRefs
    /\ glog' = Put(glog, ref, NewLog)
    /\ IF validRef(ref)
       THEN gpc' = "native" /\ warned' = warned
       ELSE gpc' = "loop" /\ warned' = warned \cup {ref}
    /\ Locals(gpc', ref, gcoord)
    /\ UNCHANGED <<resourceCache, gvrCache, discVars, cluster, gmode, gall, result, gerr, listFailed>>
    /\ UNCHANGED <<runVars, collectVars, pureVars, analyzeVars>>
    /\ UNCHANGED issued

\* client.go:176-179, 213-298: gatherNativeResource up to the typed Get
NativeGet(fail) ==
    /\ gpc = "native"
    /\ LET kind == nativeKind(resourceType)
           got == typedFound(kind, resourceName)
       IN IF kind = "none" \/ fail \/ got = {}
          THEN /\ gpc' = "discover"
               /\ glog' = IF kind # "none" /\ fail THEN LogWith("clean", FALSE) ELSE glog
               /\ result' = result
          ELSE LET o == redact(CHOOSE x \in got : TRUE) IN
               /\ result' = Put(result, Key(gref, ""), Val("typed", o, {}, FALSE))
               /\ glog' = [glog EXCEPT ![gref] = [@ EXCEPT !.via = "typed", !.obj = o]]
               /\ gpc' = IF kind = "Deployment" THEN "nativePods" ELSE afterGather
    /\ UNCHANGED <<resourceCache, gvrCache, discVars, cluster, gmode, gall, gerr, listFailed, warned>>
    /\ Locals(gpc', gref, gcoord)
    /\ UNCHANGED <<runVars, collectVars, pureVars, analyzeVars>>
    /\ Send(IF nativeKind(resourceType) = "none" THEN {} ELSE {typedGet(nativeKind(resourceType))})

\* client.go:222-227, 340-346: the pods of a Deployment fetched by the typed client
NativePods(fail) ==
    /\ gpc = "nativePods"
    /\ glog' = [glog EXCEPT ![gref] = [@ EXCEPT !.podsIssued = TRUE, !.podsOk = ~fail,
                                                 !.clean = @ /\ ~fail]]
    /\ result' = IF fail THEN result
                 ELSE Put(result, Key(gref, "_pods"),
                          Val("PodList", NoObj, listPods(glog[gref].obj.app), FALSE))
    /\ gpc' = afterGather
    /\ UNCHANGED <<resourceCache, gvrCache, discVars, cluster, gmode, gall, gerr, listFailed, warned>>
    /\ Locals(gpc', gref, gcoord)
    /\ UNCHANGED <<runVars, collectVars, pureVars, analyzeVars>>
    /\ Send({typedList("Pod")})

\* client.go:181-185 with 86-137 run by the one caller: discoverResource
GatherDiscover(o) ==
    /\ gpc = "discover"
    /\ IF cacheHit(resourceType)
       THEN /\ gcoord' = [status |-> "hit", api |-> resourceCache[resourceType],
                          gvr |-> cachedGvr(resourceType)]
            /\ gpc' = "dynamicGet"
            /\ UNCHANGED <<resourceCache, gvrCache, warned, glog, gref>>
       ELSE IF discoveryFails(o)
       THEN /\ gpc' = "loop"
            /\ Locals("loop", gref, gcoord)
            /\ warned' = warned \cup {gref}
            /\ glog' = LogWith("clean", FALSE)
            /\ UNCHANGED <<resourceCache, gvrCache>>
       ELSE LET r == scanGroups(o.list, resourceType) IN
            IF r.found
            THEN /\ resourceCache' = Put(resourceCache, resourceType, r.api)
                 /\ gvrCache' = Put(gvrCache, resourceType, r.gvr)
                 /\ gcoord' = [status |-> "found", api |-> r.api, gvr |-> r.gvr]
                 /\ gpc' = "dynamicGet"
                 /\ glog' = IF o.err THEN LogWith("clean", FALSE) ELSE glog
                 /\ UNCHANGED <<warned, gref>>
            ELSE /\ gpc' = "loop"
                 /\ Locals("loop", gref, gcoord)
                 /\ warned' = warned \cup {gref}
                 /\ glog' = IF o.err THEN LogWith("clean", FALSE) ELSE glog
                 /\ UNCHANGED <<resourceCache, gvrCache>>
    /\ UNCHANGED <<discVars, cluster, gmode, gall, result, gerr, listFailed>>
    /\ UNCHANGED <<runVars, collectVars, pureVars, analyzeVars>>
    /\ Send(IF cacheHit(resourceType) THEN {} ELSE {serverPreferredResources})

\* client.go:187-199: Get through the dynamic client, namespaced or not
DynamicGet(fail) ==
    /\ gpc = "dynamicGet"
    /\ LET got == dynamicFound(gcoord.gvr, gcoord.api.Namespaced, resourceName) IN
       IF fail \/ got = {}
       THEN /\ gpc' = "loop"
            /\ warned' = warned \cup {gref}
            /\ glog' = IF fail THEN LogWith("clean", FALSE) ELSE glog
            /\ result' = result
       ELSE LET o == CHOOSE x \in got : TRUE IN
            /\ result' = Put(result, Key(gref, ""), Val("unstructured", o, {}, FALSE))
            /\ glog' = [glog EXCEPT ![gref] = [@ EXCEPT !.via = "dynamic", !.obj = o]]
            /\ gpc' = IF hasSelector(o) THEN "dynamicPods" ELSE afterGather
            /\ warned' = warned
    /\ UNCHANGED <<resourceCache, gvrCache, discVars, cluster, gmode, gall, gerr, listFailed>>
    /\ Locals(gpc', gref, gcoord)
    /\ UNCHANGED <<runVars, collectVars, pureVars, analyzeVars>>
    /\ Send({dynamicGet(gcoord.gvr.Resource)})

\* client.go:201-209, 349-370: getPodsForWorkload on the unstructured object
DynamicPods(fail) ==
    /\ gpc = "dynamicPods"
    /\ LET o == glog[gref].obj IN
       IF ~hasMatchLabels(o)
       THEN glog' = glog /\ result' = result
       ELSE /\ glog' = [glog EXCEPT ![gref] = [@ EXCEPT !.podsIssued = TRUE, !.podsOk = ~fail,
                                                        !.clean = @ /\ ~fail]]
            /\ result' = IF ~fail /\ listPods(o.app) # {}
                         THEN Put(result, Key(gref, "_pods"), Val("PodList", NoObj, listPods(o.app), FALSE))
                         ELSE result
    /\ gpc' = afterGather
    /\ UNCHANGED <<resourceCache, gvrCache, discVars, cluster, gmode, gall, gerr, listFailed, warned>>
    /\ Locals(gpc', gref, gcoord)
    /\ UNCHANGED <<runVars, collectVars, pureVars, analyzeVars>>
    /\ Send(IF hasMatchLabels(glog[gref].obj) THEN {typedList("Pod")} ELSE {})

\* client.go:150-156 (403-409): the references are exhausted
EndRefs ==
    /\ gpc \in {"start", "loop"}
    /\ ~gall
    /\ gpc' = IF gmode = "metrics" THEN "clusterMetrics" ELSE "events"
    /\ UNCHANGED <<resourceCache, gvrCache, discVars, cluster, gmode, gall, gref, gcoord, result,
                   gerr, glog, listFailed, warned>>
    /\ UNCHANGED <<runVars, collectVars, pureVars, analyzeVars>>
    /\ UNCHANGED issued

Categories == {"deployments", "pods", "services", "configmaps", "ingresses", "hpas"}

categoryKind(c) ==
    CASE c = "deployments" -> "Deployment"
      [] c = "pods" -> "Pod"
      [] c = "services" -> "Service"
      [] c = "configmaps" -> "ConfigMap"
      [] c = "ingresses" -> "Ingress"
      [] c = "hpas" -> "HorizontalPodAutoscaler"

\* client.go:214-297: the kinds gatherNativeResource reads with the typed clientset
NativeKinds ==
    {"Deployment", "Pod", "Service", "ConfigMap", "Secret", "StatefulSet", "DaemonSet",
     "Ingress", "HorizontalPodAutoscaler"}

\* the resources the API server serves
ServedResources ==
    UNION { {g.APIResources[i].Name : i \in 1..Len(g.APIResources)} :
            g \in {G_core, G_apps, G_example, G_other} }

\* client.go:140-374: the requests a GatherResources call can send
GatherResourcesRequests ==
    {serverPreferredResources, typedList("Pod"), typedList("Event")}
        \cup {typedGet(k) : k \in NativeKinds}
        \cup {dynamicGet(r) : r \in ServedResources}
        \cup {typedList(categoryKind(c)) : c \in Categories}

\* a category is stored whenever its List call succeeds, empty or not
addList_KeepEmpty(res, c, fail) ==
    IF ~fail
    THEN Put(res, Key(<<c>>, ""), Val("List", NoObj, listNames(categoryKind(c)), FALSE))
    ELSE res

\* client.go:302-305 (and 308-335): err == nil && len(list.Items) > 0
addList(res, c, fail) ==
    IF ~fail /\ listNames(categoryKind(c)) # {}
    THEN Put(res, Key(<<c>>, ""), Val("List", NoObj, listNames(categoryKind(c)), FALSE))
    ELSE res

\* client.go:143-147, 300-338: gatherAllResources; fails are the List calls that fail
GatherAll(fails) ==
    /\ gpc = "start"
    /\ gall
    /\ gmode = "resources"
    /\ result' = addList(addList(addList(addList(addList(addList(result,
                     "deployments", "deployments" \in fails),
                     "pods", "pods" \in fails),
                     "services", "services" \in fails),
                     "configmaps", "configmaps" \in fails),
                     "ingresses", "ingresses" \in fails),
                     "hpas", "hpas" \in fails)
    /\ listFailed' = listFailed \cup fails
    /\ gpc' = "events"
    /\ UNCHANGED <<resourceCache, gvrCache, discVars, cluster, gmode, gall, gref, gcoord, gerr, glog, warned>>
    /\ UNCHANGED <<runVars, collectVars, pureVars, analyzeVars>>
    /\ Send({typedList(categoryKind(c)) : c \in Categories})

\* client.go:160 (419): err == nil && len(events.Items) > 0
eventsStored(fail) == ~fail /\ listEvents # {}

\* client.go:158-164 (417-423): getEvents, and the call returns
Events(fail) ==
    /\ gpc = "events"
    /\ result' = IF eventsStored(fail)
                 THEN Put(result, Key(<<"events">>, ""), Val("List", NoObj, listEvents, FALSE))
                 ELSE result
    /\ listFailed' = IF fail THEN listFailed \cup {"events"} ELSE listFailed
    /\ gpc' = "done"
    /\ UNCHANGED <<resourceCache, gvrCache, discVars, cluster, gmode, gall, gref, gcoord, gerr, glog, warned>>
    /\ UNCHANGED <<runVars, collectVars, pureVars, analyzeVars>>
    /\ Send({typedList("Event")})

-----------------------------------------------------------------------------
(* GatherMetricsResources, gatherResourceMetrics, gatherAllDeploymentMetrics *)

NoVal == Val("none", NoObj, {}, FALSE)

\* client.go:605-620: the namespace's events about one object
eventsFor(kind, name) == IF kind = "Deployment" /\ name = "web" THEN listEvents ELSE {}

\* client.go:494-557: getResourceMetrics; failGet, failEvents, failPods say
\* which of its API calls fail.  A pod listing that failed leaves no "pods"
\* entry (form "MetricsNoPods").  duration and timestamp are left out.
getResourceMetrics(rtype, name, failGet, failEvents, failPods) ==
    IF rtype \notin {"deployment", "deploy", "deployments"}
    THEN [ok |-> FALSE, val |-> NoVal]
    ELSE LET got == typedFound("Deployment", name) IN
         IF failGet \/ got = {}
         THEN [ok |-> FALSE, val |-> NoVal]
         ELSE LET d == CHOOSE x \in got : TRUE IN
              [ok |-> TRUE,
               val |-> Val(IF failPods THEN "MetricsNoPods" ELSE "Metrics", d,
                           IF failPods THEN {} ELSE listPods(d.app),
                           ~failEvents /\ eventsFor("Deployment", name) # {})]

\* client.go:559-573: getHPAForResource (the HPAs it returns: none or one)
getHPAForResource(rtype, name, fail) ==
    IF fail THEN {}
    ELSE { h \in cluster.objs : /\ h.kind = "HorizontalPodAutoscaler"
                                /\ h.targetName = name
                                /\ ToLower(h.targetKind) = rtype }

\* client.go:501-547: the requests of getResourceMetrics: the Get, then the
\* events and the pods
metricsRequests(rtype, name, failGet) ==
    IF rtype \notin {"deployment", "deploy", "deployments"} THEN {}
    ELSE IF failGet \/ typedFound("Deployment", name) = {} THEN {typedGet("Deployment")}
    ELSE {typedGet("Deployment"), typedList("Event"), typedList("Pod")}

\* client.go:440-446
GetMetrics(failGet, failEvents, failPods) ==
    /\ gpc = "getMetrics"
    /\ LET m == getResourceMetrics(resourceType, resourceName, failGet, failEvents, failPods) IN
       result' = IF m.ok THEN Put(result, Key(gref, "_metrics"), m.val) ELSE result
    /\ glog' = IF failGet \/ failEvents \/ failPods THEN LogWith("clean", FALSE) ELSE glog
    /\ gpc' = "getHPA"
    /\ UNCHANGED <<resourceCache, gvrCache, discVars, cluster, gmode, gall, gerr, listFailed, warned>>
    /\ Locals(gpc', gref, gcoord)
    /\ UNCHANGED <<runVars, collectVars, pureVars, analyzeVars>>
    /\ Send(metricsRequests(resourceType, resourceName, failGet))

\* client.go:448-454
GetHPA(fail) ==
    /\ gpc = "getHPA"
    /\ LET hs == getHPAForResource(resourceType, resourceName, fail) IN
       result' = IF hs # {}
                 THEN Put(result, Key(gref, "_hpa"), Val("typed", CHOOSE h \in hs : TRUE, {}, FALSE))
                 ELSE result
    /\ glog' = IF fail THEN LogWith("clean", FALSE) ELSE glog
    /\ gpc' = "loop"
    /\ UNCHANGED <<resourceCache, gvrCache, discVars, cluster, gmode, gall, gerr, listFailed, warned>>
    /\ Locals(gpc', gref, gcoord)
    /\ UNCHANGED <<runVars, collectVars, pureVars, analyzeVars>>
    /\ Send({typedList("HorizontalPodAutoscaler")})

\* client.go:467-489: the body of the loop over the listed deployments
deploymentMetrics(res, name, fGet, fEvents, fPods, fHpa, fRelated) ==
    LET k == <<"deployment", name>>
        m == getResourceMetrics("deployment", name, fGet, fEvents, fPods)
        hs == getHPAForResource("deployment", name, fHpa)
        d == CHOOSE x \in typedFound("Deployment", name) : TRUE
        r1 == IF m.ok THEN Put(res, Key(k, "_metrics"), m.val) ELSE res
        r2 == IF hs # {} THEN Put(r1, Key(k, "_hpa"), Val("typed", CHOOSE h \in hs : TRUE, {}, FALSE)) ELSE r1
    IN IF ~fRelated /\ listPods(d.app) # {}
       THEN Put(r2, Key(k, "_pods"), Val("PodList", NoObj, listPods(d.app), FALSE))
       ELSE r2

RECURSIVE deploymentsLoop(_, _, _, _, _, _, _)
deploymentsLoop(res, names, fGet, fEvents, fPods, fHpa, fRelated) ==
    IF names = {} THEN res
    ELSE LET n == CHOOSE x \in names : TRUE IN
         deploymentsLoop(deploymentMetrics(res, n, fGet, fEvents, fPods, fHpa, fRelated),
                         names \ {n}, fGet, fEvents, fPods, fHpa, fRelated)

\* client.go:459-488: the requests of gatherAllDeploymentMetrics
allDeploymentRequests(fList, fGet) ==
    IF fList \/ listNames("Deployment") = {} THEN {typedList("Deployment")}
    ELSE {typedList("Deployment"), typedList("HorizontalPodAutoscaler"), typedList("Pod")}
         \cup UNION {metricsRequests("deployment", n, fGet) : n \in listNames("Deployment")}

\* client.go:396-400, 457-492: gatherAllDeploymentMetrics; a failed List of the
\* deployments makes GatherMetricsResources return nil and the error
AllDeploymentMetrics(fList, fGet, fEvents, fPods, fHpa, fRelated) ==
    /\ gpc = "start"
    /\ gall
    /\ gmode = "metrics"
    /\ IF fList
       THEN /\ gerr' = TRUE
            /\ result' = EmptyMap
            /\ gpc' = "done"
            /\ listFailed' = listFailed \cup {"deployments"}
       ELSE /\ gerr' = gerr
            /\ result' = deploymentsLoop(
                            Put(result, Key(<<"deployments">>, ""),
                                Val("List", NoObj, listNames("Deployment"), FALSE)),
                            listNames("Deployment"), fGet, fEvents, fPods, fHpa, fRelated)
            /\ gpc' = "clusterMetrics"
            /\ listFailed' = listFailed
    /\ UNCHANGED <<resourceCache, gvrCache, discVars, cluster, gmode, gall, gref, gcoord, glog, warned>>
    /\ UNCHANGED <<runVars, collectVars, pureVars, analyzeVars>>
    /\ Send(allDeploymentRequests(fList, fGet))

\* client.go:411-415, 575-603: getClusterMetrics lists the nodes
ClusterMetrics(fail) ==
    /\ gpc = "clusterMetrics"
    /\ result' = IF fail THEN result
                 ELSE Put(result, Key(<<"cluster_metrics">>, ""),
                          Val("ClusterMetrics", NoObj, listNames("Node"), FALSE))
    /\ listFailed' = IF fail THEN listFailed \cup {"nodes"} ELSE listFailed
    /\ gpc' = "events"
    /\ UNCHANGED <<resourceCache, gvrCache, discVars, cluster, gmode, gall, gref, gcoord, gerr, glog, warned>>
    /\ UNCHANGED <<runVars, collectVars, pureVars, analyzeVars>>
    /\ Send({typedList("Node")})

\* no discoverResource caller is running beside the gather call
DiscoverIdle ==
    /\ readers = {}
    /\ writer = 0
    /\ pc = [p \in Callers |-> "idle"]
    /\ tok = [p \in Callers |-> "nosuch"]
    /\ disc = [p \in Callers |-> NoOutcome]
    /\ found = [p \in Callers |-> NoMatch]
    /\ ret = [p \in Callers |-> NoRet]
    /\ calls = 0

InitGather ==
    /\ issued = {}
    /\ resourceCache = EmptyMap
    /\ gvrCache = EmptyMap
    /\ DiscoverIdle
    /\ cluster \in Clusters
    /\ gpc = "start"
    /\ gmode \in {"resources", "metrics"}
    /\ gall \in BOOLEAN
    /\ gref = <<>>
    /\ gcoord = NoRet
    /\ result = EmptyMap
    /\ gerr = FALSE
    /\ glog = EmptyMap
    /\ listFailed = {}
    /\ warned = {}
    /\ RunIdle
    /\ CollectIdle
    /\ PureIdle
    /\ AnalyzeIdle

NextGather ==
    \/ \E ref \in RefUniverse : NextRef(ref)
    \/ \E fail \in BOOLEAN : NativeGet(fail)
    \/ \E fail \in BOOLEAN : NativePods(fail)
    \/ \E o \in DiscoveryOutcomes : GatherDiscover(o)
    \/ \E fail \in BOOLEAN : DynamicGet(fail)
    \/ \E fail \in BOOLEAN : DynamicPods(fail)
    \/ EndRefs
    \/ \E fails \in SUBSET Categories : GatherAll(fails)
    \/ \E f1, f2, f3 \in BOOLEAN : GetMetrics(f1, f2, f3)
    \/ \E fail \in BOOLEAN : GetHPA(fail)
    \/ \E f1, f2, f3, f4, f5, f6 \in BOOLEAN : AllDeploymentMetrics(f1, f2, f3, f4, f5, f6)
    \/ \E fail \in BOOLEAN : ClusterMetrics(fail)
    \/ \E fail \in BOOLEAN : Events(fail)

SpecGather == InitGather /\ [][NextGather]_vars

-----------------------------------------------------------------------------
(* Claims about the gatherer *)

FullDiscoveryList == <<G_core, G_apps, G_example, G_other>>

\* the references whose iteration is over
Gathered == (DOMAIN glog) \ {gref}

\* object o is of the type that token t names: by the built-in alias, else by
\* the first API resource of the cluster that the token matches
TypeDenotes(t, o) ==
    IF nativeKind(t) # "none" THEN o.kind = nativeKind(t)
    ELSE /\ MatchingPositions(FullDiscoveryList, t) # {}
         /\ o.resource = FirstMatch(FullDiscoveryList, t).gvr.Resource
         /\ o.group = FirstMatch(FullDiscoveryList, t).gvr.Group

\* the reference is well formed and names an object that exists
ExistsFor(ref) ==
    /\ Len(ref) = 2
    /\ \E o \in cluster.objs : o.name = ref[2] /\ TypeDenotes(ToLower(ref[1]), o)

NoEntryFor(ref) == \A k \in DOMAIN result : k[1] # ref

EventsKey == Key(<<"events">>, "")

\* C1 (as claimed): every Secret in the result map has no data payload,
\* whichever client fetched it.
C1_SecretsRedacted ==
    \A k \in DOMAIN result :
        result[k].obj.kind = "Secret" => result[k].obj.data = NoData

\* C3: GatherResources returns no error; a reference that is malformed or
\* names nothing that exists leaves no entry and a warning; a reference that
\* names an existing object, with every API call for it answering, is in the
\* result under its own key; an entry is missing exactly for the warned ones.
C3_PartialFailure ==
    (gmode = "resources" /\ gpc = "done") =>
        /\ ~gerr
        /\ \A ref \in DOMAIN glog :
              /\ ~ExistsFor(ref) => (NoEntryFor(ref) /\ ref \in warned)
              /\ (ExistsFor(ref) /\ glog[ref].clean) =>
                    /\ Key(ref, "") \in DOMAIN result
                    /\ result[Key(ref, "")].obj.name = ref[2]
                    /\ TypeDenotes(ToLower(ref[1]), result[Key(ref, "")].obj)
              /\ (Key(ref, "") \in DOMAIN result) <=> (ref \notin warned)
              /\ ref \in warned => NoEntryFor(ref)

\* one reference failed with a warning and another one was gathered
C3_Witness ==
    /\ gmode = "resources" /\ gpc = "done"
    /\ \E bad \in warned : \E good \in DOMAIN glog :
          /\ Len(bad) # 2
          /\ Key(good, "") \in DOMAIN result

Suffixes == {"", "_pods", "_metrics", "_hpa"}

SameBuiltin(a, b) ==
    /\ Len(a) = 2 /\ Len(b) = 2
    /\ a[2] = b[2]
    /\ nativeKind(ToLower(a[1])) # "none"
    /\ nativeKind(ToLower(a[1])) = nativeKind(ToLower(b[1]))

\* C8 (as claimed): two aliases of one built-in kind with the same name,
\* gathered against the same cluster with every API call answering, yield the
\* same object and the same derived entries (pods, metrics, hpa).
C8_AliasInvariance ==
    \A a \in Gathered : \A b \in Gathered :
        (SameBuiltin(a, b) /\ glog[a].clean /\ glog[b].clean) =>
            \A sfx \in Suffixes :
                /\ (Key(a, sfx) \in DOMAIN result) <=> (Key(b, sfx) \in DOMAIN result)
                /\ (Key(a, sfx) \in DOMAIN result /\ Key(b, sfx) \in DOMAIN result)
                      => result[Key(a, sfx)] = result[Key(b, sfx)]

\* the fetched object exposes a pod selector: a workload fetched by the typed
\* client, or a dynamically fetched object with spec.selector.matchLabels
ExposesSelector(e) ==
    \/ e.via = "typed" /\ e.obj.kind \in {"Deployment", "StatefulSet", "DaemonSet"}
    \/ e.via = "dynamic" /\ e.obj.selector = "matchLabels"

\* C9 (as claimed): for every fetched object that exposes a pod selector the
\* pods are listed by label selector and stored under "<ref>_pods"; when the
\* listing fails that entry is absent and the resource is still returned.
C9_PodsForSelectors ==
    \A ref \in Gathered :
        (glog[ref].via # "none" /\ ExposesSelector(glog[ref])) =>
            /\ Key(ref, "") \in DOMAIN result
            /\ glog[ref].podsIssued
            /\ glog[ref].podsOk =>
                  /\ Key(ref, "_pods") \in DOMAIN result
                  /\ result[Key(ref, "_pods")].items = listPods(glog[ref].obj.app)
            /\ ~glog[ref].podsOk => Key(ref, "_pods") \notin DOMAIN result

CategoryKeys(cs) == { Key(<<c>>, "") : c \in cs }

ListedNonEmpty == { c \in Categories : c \notin listFailed /\ listNames(categoryKind(c)) # {} }

\* what C10 says of the built-in categories and of the reference list
C10_Categories ==
    (gmode = "resources" /\ gpc = "done" /\ gall) =>
        /\ (DOMAIN result) \ {EventsKey} = CategoryKeys(ListedNonEmpty)
        /\ glog = EmptyMap /\ warned = {}

\* C10 (as claimed): in all=true mode the keys are the categories whose
\* listing is non-empty, plus "events" exactly when the namespace has an
\* event; "events" follows the same condition in all=false mode.
C10_AllModeKeys ==
    /\ C10_Categories
    /\ (gmode = "resources" /\ gpc = "done") =>
          ((EventsKey \in DOMAIN result) <=> cluster.events)

\* C10 (amended): ... plus "events" exactly when the listing of the events
\* succeeds and returns at least one event, in both modes.
C10_AllModeKeysAmended ==
    /\ C10_Categories
    /\ (gmode = "resources" /\ gpc = "done") =>
          ((EventsKey \in DOMAIN result) <=> (cluster.events /\ "events" \notin listFailed))

\* an all=true call that kept some categories, dropped others and added events
C10_Witness ==
    /\ gmode = "resources" /\ gpc = "done" /\ gall
    /\ EventsKey \in DOMAIN result
    /\ Key(<<"deployments">>, "") \in DOMAIN result
    /\ Key(<<"pods">>, "") \notin DOMAIN result
    /\ listFailed = {}

-----------------------------------------------------------------------------
(* The metrics command: runMetrics, NewPrometheusClient, Close              *)
(*                                                                         *)
(* A URL is the sequence of its pieces, cut so that a leading "http" and a *)
(* trailing "/" are pieces of their own: "https://p" is                    *)
(* <<"http","s","://","p">>, "httpbin.org" is <<"http","bin.org">>.        *)

HasPrefixHttp(u) == Len(u) >= 1 /\ u[1] = "http"

HasSuffixSlash(u) == Len(u) >= 1 /\ u[Len(u)] = "/"

\* the URL is used as it was built
normalizeURL_AsBuilt(u) == u

\* prometheus.go:95-100
normalizeURL(u) ==
    LET u1 == IF ~HasPrefixHttp(u) THEN <<"http", "://">> \o u ELSE u
    IN IF ~HasSuffixSlash(u1) THEN Append(u1, "/") ELSE u1

\* prometheus.go:148-154
servicePatterns ==
    <<"prometheus-server", "prometheus-service", "prometheus",
      "kube-prometheus-stack-prometheus", "prometheus-kube-prometheus-prometheus">>

\* prometheus.go:157-164
namespaces ==
    <<"prometheus-system", "prometheus", "monitoring", "kube-prometheus-stack",
      "observability", "default">>

DefaultPort == 80

\* prometheus.go:170-181: the loops of detectPrometheusService from namespace i,
\* pattern j on; services are the Services whose Get succeeds
RECURSIVE detectFrom(_, _, _, _)
detectFrom(services, nss, i, j) ==
    IF i > Len(nss)
    THEN [NoSvc EXCEPT !.gets = Len(nss) * Len(servicePatterns)]
    ELSE IF j > Len(servicePatterns)
    THEN detectFrom(services, nss, i + 1, 1)
    ELSE LET hit == { x \in services : x.ns = nss[i] /\ x.name = servicePatterns[j] } IN
         IF hit # {}
         THEN LET service == CHOOSE x \in hit : TRUE IN
              [ok |-> TRUE, name |-> service.name, ns |-> nss[i],
               port |-> IF Len(service.ports) > 0 THEN service.ports[1] ELSE DefaultPort,
               gets |-> (i - 1) * Len(servicePatterns) + j]
         ELSE detectFrom(services, nss, i, j + 1)

\* a detection that searches every namespace, supplied or not
detectPrometheusService_AllNamespaces(services, prometheusNamespace) ==
    detectFrom(services, namespaces, 1, 1)

\* prometheus.go:146-186
detectPrometheusService(services, prometheusNamespace) ==
    detectFrom(services,
               IF prometheusNamespace # "" THEN <<prometheusNamespace>> ELSE namespaces,
               1, 1)

\* os.Process.Kill on the subprocess: it ends a running one
Kill(t) == IF t = "running" THEN "killed" ELSE t

\* a Close that leaves the subprocess alone
Close_Leak(c, t) == t

\* prometheus.go:129-134
Close(c, t) == IF c.portForwardCmd THEN Kill(t) ELSE t

\* what the server can answer to the probe
ProbeOutcomes == {"success", "transportError", "non200", "undecodable", "notSuccess"}

\* the probe's answer as testConnection sees it: did the transport deliver a
\* response, its HTTP status, does the body decode, the status field
Answer(a) ==
    [transport |-> a # "transportError",
     code |-> IF a = "non200" THEN 503 ELSE 200,
     decodes |-> a # "undecodable",
     status |-> IF a = "notSuccess" THEN "error" ELSE "success"]

StatusOK == 200

\* a probe that is content with any decodable HTTP 200 answer
testConnection_AnyBody(a) ==
    Answer(a).transport /\ Answer(a).code = StatusOK /\ Answer(a).decodes

\* prometheus.go:230-254: testConnection returns nil
testConnection(a) ==
    LET resp == Answer(a) IN
    IF ~resp.transport THEN FALSE
    ELSE IF resp.code # StatusOK THEN FALSE
    ELSE IF ~resp.decodes THEN FALSE
    ELSE resp.status = "success"

\* prometheus.go:231: testURL := p.url + "api/v1/query?query=up"
testURL(url) == Append(url, "api/v1/query?query=up")

\* Services of the cluster (namespace, name, declared ports)
Service(ns, name, ports) == [ns |-> ns, name |-> name, ports |-> ports]

ServiceSets ==
    { {},
      {Service("monitoring", "prometheus-server", <<9090>>)},
      {Service("default", "prometheus", <<>>),
       Service("monitoring", "kube-prometheus-stack-prometheus", <<8080, 9090>>)},
      {Service("custom", "prometheus-server", <<9091>>),
       Service("default", "prometheus-server", <<9090>>)},
      {Service("monitoring", "prometheus-kube-prometheus-prometheus", <<9090>>),
       Service("monitoring", "prometheus", <<>>)} }

\* values of --prometheus-url
URLInputs ==
    { <<>>, <<"prom.example.com">>, <<"http", "://", "prom.example.com", "/">>,
      <<"http", "s", "://", "prom.example.com">>, <<"http", "bin.org">> }

\* values of --prometheus-namespace
NamespaceInputs == {"", "custom", "monitoring"}

\* runMetrics returns err; the deferred Close, once registered, runs first
Return(err) ==
    /\ rerr' = err
    /\ rpc' = "returned"
    /\ tunnel' = IF deferred THEN Close(pclient, tunnel) ELSE tunnel

\* part_006:105-116
RunValidate ==
    /\ rpc = "start"
    /\ IF ~rin.all /\ rin.resources = 0
       THEN Return("validate")
       ELSE rpc' = "newClient" /\ UNCHANGED <<rerr, tunnel>>
    /\ UNCHANGED <<rin, svc, finalURL, pclient, perr, deferred, probed, lookups, started>>
    /\ UNCHANGED <<resourceCache, gvrCache, discVars, gatherVars, collectVars, pureVars, analyzeVars>>
    /\ UNCHANGED issued

\* part_006:134-140
RunNewClient(fail) ==
    /\ rpc = "newClient"
    /\ IF fail
       THEN Return("cluster")
       ELSE rpc' = "prometheus" /\ UNCHANGED <<rerr, tunnel>>
    /\ UNCHANGED <<rin, svc, finalURL, pclient, perr, deferred, probed, lookups, started>>
    /\ UNCHANGED <<resourceCache, gvrCache, discVars, gatherVars, collectVars, pureVars, analyzeVars>>
    /\ UNCHANGED issued

\* prometheus.go:54-58: an explicit URL is used as given
PromExplicit ==
    /\ rpc = "prometheus"
    /\ rin.url # <<>>
    /\ finalURL' = rin.url
    /\ rpc' = "normalize"
    /\ UNCHANGED <<rin, svc, pclient, perr, deferred, rerr, tunnel, probed, lookups, started>>
    /\ UNCHANGED <<resourceCache, gvrCache, discVars, gatherVars, collectVars, pureVars, analyzeVars>>
    /\ UNCHANGED issued

\* prometheus.go:59-67: auto-detection
PromDetect ==
    /\ rpc = "prometheus"
    /\ rin.url = <<>>
    /\ LET d == detectPrometheusService(rin.services, rin.ns) IN
       /\ svc' = d
       /\ lookups' = lookups + d.gets
       /\ IF ~d.ok
          THEN perr' = TRUE /\ rpc' = "promReturn"
          ELSE perr' = perr /\ rpc' = "inCluster"
    /\ UNCHANGED <<rin, finalURL, pclient, deferred, rerr, tunnel, probed, started>>
    /\ UNCHANGED <<resourceCache, gvrCache, discVars, gatherVars, collectVars, pureVars, analyzeVars>>
    /\ Send(IF detectPrometheusService(rin.services, rin.ns).gets > 0 THEN {typedGet("Service")} ELSE {})

\* prometheus.go:70-74, 137-143: the service-account token file exists
PromInCluster ==
    /\ rpc = "inCluster"
    /\ rin.inCluster
    /\ finalURL' = <<"http", "://", svc.name, ".", svc.ns, ".svc.cluster.local:", ToString(svc.port)>>
    /\ rpc' = "normalize"
    /\ UNCHANGED <<rin, svc, pclient, perr, deferred, rerr, tunnel, probed, lookups, started>>
    /\ UNCHANGED <<resourceCache, gvrCache, discVars, gatherVars, collectVars, pureVars, analyzeVars>>
    /\ UNCHANGED issued

\* prometheus.go:75-91, 189-216: kubectl port-forward is started; startFails
\* says that cmd.Start returned an error
PromPortForward(startFails) ==
    /\ rpc = "inCluster"
    /\ ~rin.inCluster
    /\ IF startFails
       THEN /\ perr' = TRUE
            /\ rpc' = "promReturn"
            /\ pclient' = NoClient
            /\ UNCHANGED <<finalURL, tunnel, started>>
       ELSE /\ tunnel' = "running"
            /\ started' = started + 1
            /\ pclient' = [pclient EXCEPT !.portForwardCmd = TRUE, !.localPort = "9090",
                                          !.isPortForward = TRUE]
            /\ finalURL' = <<"http", "://", "localhost", ":", "9090">>
            /\ rpc' = "normalize"
            /\ perr' = perr
    /\ UNCHANGED <<rin, svc, deferred, rerr, probed, lookups>>
    /\ UNCHANGED <<resourceCache, gvrCache, discVars, gatherVars, collectVars, pureVars, analyzeVars>>
    /\ UNCHANGED issued

\* the subprocess ends by itself (the local port is taken, the API server
\* closes the stream)
TunnelExit ==
    /\ tunnel = "running"
    /\ tunnel' = "exited"
    /\ UNCHANGED <<rin, rpc, svc, finalURL, pclient, perr, deferred, rerr, probed, lookups, started>>
    /\ UNCHANGED <<resourceCache, gvrCache, discVars, gatherVars, collectVars, pureVars, analyzeVars>>
    /\ UNCHANGED issued

\* prometheus.go:94-108
PromNormalize ==
    /\ rpc = "normalize"
    /\ finalURL' = normalizeURL(finalURL)
    /\ pclient' = [pclient EXCEPT !.url = finalURL']
    /\ rpc' = "probe"
    /\ UNCHANGED <<rin, svc, perr, deferred, rerr, tunnel, probed, lookups, started>>
    /\ UNCHANGED <<resourceCache, gvrCache, discVars, gatherVars, collectVars, pureVars, analyzeVars>>
    /\ UNCHANGED issued

\* prometheus.go:110-125: the liveness probe; on failure Close, then the error
PromProbe(answer) ==
    /\ rpc = "probe"
    /\ probed' = [url |-> testURL(pclient.url), answer |-> answer]
    /\ IF ~testConnection(answer)
       THEN /\ tunnel' = Close(pclient, tunnel)
            /\ pclient' = NoClient
            /\ perr' = TRUE
       ELSE UNCHANGED <<tunnel, pclient, perr>>
    /\ rpc' = "promReturn"
    /\ UNCHANGED <<rin, svc, finalURL, deferred, rerr, lookups, started>>
    /\ UNCHANGED <<resourceCache, gvrCache, discVars, gatherVars, collectVars, pureVars, analyzeVars>>
    /\ UNCHANGED issued

\* part_006:143-149: the constructor has returned
RunPrometheus ==
    /\ rpc = "promReturn"
    /\ IF perr
       THEN Return("prometheus") /\ UNCHANGED deferred
       ELSE /\ deferred' = TRUE
            /\ rpc' = "gatherResources"
            /\ UNCHANGED <<rerr, tunnel>>
    /\ UNCHANGED <<rin, svc, finalURL, pclient, perr, probed, lookups, started>>
    /\ UNCHANGED <<resourceCache, gvrCache, discVars, gatherVars, collectVars, pureVars, analyzeVars>>
    /\ UNCHANGED issued

\* one later stage of runMetrics: it fails and runMetrics returns its error,
\* or runMetrics goes on
Stage(at, next, err, fail, requests) ==
    /\ rpc = at
    /\ IF fail
       THEN Return(err)
       ELSE rpc' = next /\ UNCHANGED <<rerr, tunnel>>
    /\ UNCHANGED <<rin, svc, finalURL, pclient, perr, deferred, probed, lookups, started>>
    /\ UNCHANGED <<resourceCache, gvrCache, discVars, gatherVars, collectVars, pureVars, analyzeVars>>
    /\ Send(requests)

\* part_006:162-166
RunGatherResources(fail) == Stage("gatherResources", "gatherMetrics", "gather", fail, GatherResourcesRequests)

\* part_006:181-185
RunGatherMetrics(fail) == Stage("gatherMetrics", "createLLM", "metrics", fail, {})

\* part_006:194-198
RunCreateLLM(fail) == Stage("createLLM", "analyze", "llm", fail, {})

\* part_000:35-36, 219-281: for each resource that has metrics the Analyzer asks
\* for its HPA, autoscaling/v2 first and autoscaling/v1 when that Get fails
getHPAConfig(hpa) ==
    CASE hpa = "noResource" -> {}
      [] hpa = "v2" -> {typedGet("HorizontalPodAutoscaler.v2")}
      [] OTHER -> {typedGet("HorizontalPodAutoscaler.v2"), typedGet("HorizontalPodAutoscaler.v1")}

\* what the Analyzer meets: nothing to analyze, an HPA served as v2, one served
\* as v1 only, none
HPAOutcomes == {"noResource", "v2", "v1", "none"}

\* part_006:224-228
RunAnalyze(fail, hpa) == Stage("analyze", "display", "analysis", fail, getHPAConfig(hpa))

\* part_006:233-236
RunDisplay ==
    /\ rpc = "display"
    /\ Return("none")
    /\ UNCHANGED <<rin, svc, finalURL, pclient, perr, deferred, probed, lookups, started>>
    /\ UNCHANGED <<resourceCache, gvrCache, discVars, gatherVars, collectVars, pureVars, analyzeVars>>
    /\ UNCHANGED issued

InitRun ==
    /\ issued = {}
    /\ resourceCache = EmptyMap
    /\ gvrCache = EmptyMap
    /\ DiscoverIdle
    /\ GatherIdle
    /\ CollectIdle
    /\ PureIdle
    /\ AnalyzeIdle
    /\ rin \in [url : URLInputs, ns : NamespaceInputs, all : BOOLEAN, resources : {0, 1},
                inCluster : BOOLEAN, services : ServiceSets]
    /\ rpc = "start"
    /\ svc = NoSvc
    /\ finalURL = <<>>
    /\ pclient = NoClient
    /\ perr = FALSE
    /\ deferred = FALSE
    /\ rerr = "running"
    /\ tunnel = "none"
    /\ probed = NoProbe
    /\ lookups = 0
    /\ started = 0

NextRun ==
    \/ RunValidate
    \/ \E fail \in BOOLEAN : RunNewClient(fail)
    \/ PromExplicit
    \/ PromDetect
    \/ PromInCluster
    \/ \E startFails \in BOOLEAN : PromPortForward(startFails)
    \/ TunnelExit
    \/ PromNormalize
    \/ \E answer \in ProbeOutcomes : PromProbe(answer)
    \/ RunPrometheus
    \/ \E fail \in BOOLEAN : RunGatherResources(fail)
    \/ \E fail \in BOOLEAN : RunGatherMetrics(fail)
    \/ \E fail \in BOOLEAN : RunCreateLLM(fail)
    \/ \E fail \in BOOLEAN, hpa \in HPAOutcomes : RunAnalyze(fail, hpa)
    \/ RunDisplay

SpecRun == InitRun /\ [][NextRun]_vars

-----------------------------------------------------------------------------
(* Claims about the metrics command *)

\* C2: a started port-forward subprocess is not left running: when the
\* constructor returns an error the subprocess is no longer running, and
\* when runMetrics has returned, with nil or with any error, it is not either.
C2_TunnelTornDown ==
    /\ (rpc = "promReturn" /\ perr) => tunnel # "running"
    /\ rpc = "returned" => tunnel # "running"
    /\ started <= 1

\* runMetrics returned a later stage's error and the tunnel it had started
\* was killed on the way out
C2_Witness ==
    /\ rpc = "returned"
    /\ rerr \in {"gather", "metrics", "llm", "analysis"}
    /\ started = 1
    /\ tunnel = "killed"

\* the probe failed inside the constructor and the tunnel was killed
C2_ProbeFailureKills ==
    /\ rpc = "promReturn" /\ perr
    /\ started = 1
    /\ tunnel = "killed"

\* the constructor has passed the URL normalisation in this run
Normalized ==
    \/ rpc \in {"probe", "gatherResources", "gatherMetrics", "createLLM", "analyze", "display"}
    \/ rpc = "promReturn" /\ finalURL # <<>>
    \/ rpc = "returned" /\ finalURL # <<>>

\* the URL names a scheme
HasScheme(u) == \E i \in DOMAIN u : u[i] = "://"

\* "http://" in front when no scheme is named, "/" behind when none ends it
ExpectedBase(u) ==
    LET withScheme == IF HasScheme(u) THEN u ELSE <<"http", "://">> \o u
    IN IF withScheme[Len(withScheme)] = "/" THEN withScheme ELSE withScheme \o <<"/">>

\* C11 (as claimed): with a non-empty explicit URL the constructor looks up
\* no Service and starts no subprocess, and its base URL is the input with
\* "http://" in front whenever the input has no scheme and "/" behind
\* whenever the input does not end in "/".
C11_ExplicitURL ==
    (rin.url # <<>> /\ Normalized) =>
        /\ lookups = 0
        /\ started = 0
        /\ tunnel = "none"
        /\ finalURL = ExpectedBase(rin.url)

\* what holds of C11 for the inputs that do not begin with "http"
C11_ExplicitURLNoHttpPrefix ==
    (rin.url # <<>> /\ Normalized) =>
        /\ lookups = 0 /\ started = 0 /\ tunnel = "none"
        /\ rin.url[1] # "http" => finalURL = ExpectedBase(rin.url)
        /\ finalURL[Len(finalURL)] = "/"

\* the constructor has returned a client to runMetrics
ClientReturned ==
    \/ rpc = "promReturn" /\ ~perr
    \/ deferred

\* C12: a client is returned only after the probe of <base>api/v1/query with
\* query "up" was answered with HTTP 200, a decodable body and status
\* "success"; after any other answer the constructor returns an error and no
\* client.
C12_ProbeGatesClient ==
    /\ ClientReturned =>
          /\ probed.answer = "success"
          /\ probed.url = pclient.url \o <<"api/v1/query?query=up">>
          /\ pclient.url = finalURL
    /\ probed.answer \in {"transportError", "non200", "undecodable", "notSuccess"} =>
          /\ perr
          /\ pclient = NoClient
          /\ ~deferred
          /\ rpc \in {"promReturn", "returned"}
          /\ rpc = "returned" => rerr = "prometheus"

\* the probe got HTTP 200 with a body whose status is not "success" and the
\* constructor returned the error
C12_Witness ==
    /\ probed.answer = "notSuccess"
    /\ rpc = "promReturn"
    /\ perr

\* detectPrometheusService ran in this run
Detected == lookups > 0

\* the namespaces searched, in the order of the search
SearchOrder ==
    IF rin.ns # "" THEN <<rin.ns>>
    ELSE <<"prometheus-system", "prometheus", "monitoring", "kube-prometheus-stack",
           "observability", "default">>

\* the Service names tried in each namespace, in the order of the search
NameOrder ==
    <<"prometheus-server", "prometheus-service", "prometheus",
      "kube-prometheus-stack-prometheus", "prometheus-kube-prometheus-prometheus">>

\* the Get of the Service succeeds
GetSucceeds(ns, name) == \E x \in rin.services : x.ns = ns /\ x.name = name

\* pair (i, j) of the search is the first whose Get succeeds
FirstHit(i, j) ==
    /\ GetSucceeds(SearchOrder[i], NameOrder[j])
    /\ \A i2 \in DOMAIN SearchOrder, j2 \in DOMAIN NameOrder :
          (i2 < i \/ (i2 = i /\ j2 < j)) => ~GetSucceeds(SearchOrder[i2], NameOrder[j2])

\* C26: without an explicit URL the detection returns the first pair, in the
\* order of the namespaces and within a namespace of the names, whose Get
\* succeeds, only the supplied namespace being searched when there is one;
\* the port is the first declared one, or 80; when no Get succeeds the
\* constructor fails and no tunnel was started
C26_FirstMatch ==
    Detected =>
        IF \E i \in DOMAIN SearchOrder, j \in DOMAIN NameOrder : FirstHit(i, j)
        THEN /\ svc.ok
             /\ \E i \in DOMAIN SearchOrder, j \in DOMAIN NameOrder :
                   /\ FirstHit(i, j)
                   /\ svc.ns = SearchOrder[i]
                   /\ svc.name = NameOrder[j]
                   /\ \A x \in rin.services :
                         (x.ns = svc.ns /\ x.name = svc.name) =>
                             svc.port = IF x.ports = <<>> THEN 80 ELSE x.ports[1]
        ELSE /\ ~svc.ok
             /\ perr
             /\ rpc \in {"promReturn", "returned"}
             /\ rpc = "returned" => rerr = "prometheus"
             /\ started = 0
             /\ tunnel = "none"

\* the detection passed over a later name of the same namespace and returned
\* a Service that declares no port
C26_Witness ==
    /\ Detected
    /\ svc.ok
    /\ svc.port = 80
    /\ Cardinality(rin.services) = 2
    /\ GetSucceeds(svc.ns, "prometheus-kube-prometheus-prometheus")

\* the supplied namespace holds no Service and the constructor failed
C26_NoMatch ==
    /\ Detected
    /\ rin.ns = "custom"
    /\ rin.services # {}
    /\ ~svc.ok
    /\ perr

\* the constructor has decided how Prometheus is reached
Decided == Normalized \/ (rpc \in {"promReturn", "returned"} /\ (Detected \/ rin.url # <<>>))

\* the conditions under which a tunnel is wanted
TunnelWanted == rin.url = <<>> /\ svc.ok /\ ~rin.inCluster

\* what holds of the base URL in the two detected cases
DetectedBase ==
    /\ (Normalized /\ started = 1) =>
          finalURL = <<"http", "://", "localhost", ":", "9090", "/">>
    /\ (Normalized /\ rin.url = <<>> /\ rin.inCluster) =>
          /\ finalURL = <<"http", "://", svc.name, ".", svc.ns, ".svc.cluster.local:",
                          ToString(svc.port), "/">>
          /\ started = 0
          /\ tunnel = "none"

\* C27 (as claimed): a subprocess is started if and only if no explicit URL
\* was given, the detection succeeded and the token file is absent; at most
\* one is started; the base URL is then http://localhost:9090/, and in the
\* in-cluster case the cluster-DNS URL with no subprocess
C27_TunnelIff ==
    /\ started <= 1
    /\ DetectedBase
    /\ Decided => (started = 1 <=> TunnelWanted)

\* C27, amended: a subprocess is started only if no explicit URL was given,
\* the detection succeeded and the token file is absent; under these
\* conditions either one is started or the constructor has failed because
\* kubectl could not be started; the rest as claimed
C27_TunnelIffStartable ==
    /\ started <= 1
    /\ DetectedBase
    /\ started = 1 => TunnelWanted
    /\ (Decided /\ TunnelWanted /\ started = 0) =>
          /\ perr
          /\ pclient = NoClient
          /\ finalURL = <<>>
          /\ tunnel = "none"

\* the constructor went through the tunnel and has its base URL
C27_Witness ==
    /\ Normalized
    /\ TunnelWanted
    /\ started = 1
    /\ pclient.url = <<"http", "://", "localhost", ":", "9090", "/">>

-----------------------------------------------------------------------------
(* Time, durations and series (pkg/metrics/prometheus.go)                  *)
(*                                                                         *)
(* A duration string is the sequence of its characters.  Instants and      *)
(* time.Duration values are counted in whole minutes: every duration the   *)
(* code builds is a whole number of minutes.  time.Duration is an int64    *)
(* count of nanoseconds, so it holds at most MaxDuration minutes and a     *)
(* product that leaves the range wraps around by 2^64 ns, WrapDuration     *)
(* minutes to the nearest minute.  A sample is [t, v]: its instant and its *)
(* value, an integer.                                                      *)

\* characters of the duration strings tried
MaxChars == 3

\* samples in the series handed to calculateStats and calculateTrend
MaxSamples == 3

Hour == 60
Day == 24 * Hour
Minute == 1
MaxDuration == 153722867
WrapDuration == 307445735
MaxIntDigits == 19

\* the reading of the clock at the start
Now0 == 29000000

IsDigit(c) == c \in {"0", "1", "2", "3", "4", "5", "6", "7", "8", "9"}

DigitValue(c) ==
    CASE c = "0" -> 0 [] c = "1" -> 1 [] c = "2" -> 2 [] c = "3" -> 3 [] c = "4" -> 4
      [] c = "5" -> 5 [] c = "6" -> 6 [] c = "7" -> 7 [] c = "8" -> 8 [] c = "9" -> 9

\* prometheus.go:518-522: the regular expression ^(\d+)([hdm])$ matches
matchDuration(d) ==
    /\ Len(d) >= 2
    /\ \A i \in 1..(Len(d) - 1) : IsDigit(d[i])
    /\ d[Len(d)] \in {"h", "d", "m"}

RECURSIVE stripZeros(_)
stripZeros(ds) ==
    IF Len(ds) > 1 /\ ds[1] = "0" THEN stripZeros(Tail(ds)) ELSE ds

RECURSIVE digitsValue(_)
digitsValue(ds) ==
    IF ds = <<>> THEN 0
    ELSE 10 * digitsValue(SubSeq(ds, 1, Len(ds) - 1)) + DigitValue(ds[Len(ds)])

\* prometheus.go:524: strconv.Atoi; a number of more than 19 digits does not
\* fit an int and is an error
Atoi(ds) ==
    LET t == stripZeros(ds) IN
    IF Len(t) > MaxIntDigits THEN [ok |-> FALSE, v |-> 0]
    ELSE [ok |-> TRUE, v |-> digitsValue(t)]

\* int64 arithmetic of time.Duration
wrap64(x) ==
    IF x > MaxDuration THEN x - WrapDuration
    ELSE IF x < -MaxDuration THEN x + WrapDuration
    ELSE x

\* Time.Sub saturates at the largest and the smallest Duration
saturate(x) ==
    IF x > MaxDuration THEN MaxDuration
    ELSE IF x < -MaxDuration THEN -MaxDuration
    ELSE x

\* prometheus.go:513-540: parseDuration, called at clock reading now
parseDuration(duration, now) ==
    IF ~matchDuration(duration) THEN [ok |-> FALSE, t |-> now]
    ELSE LET value == Atoi(SubSeq(duration, 1, Len(duration) - 1))
             unit == duration[Len(duration)]
         IN IF ~value.ok THEN [ok |-> FALSE, t |-> now]
            ELSE CASE unit = "h" -> [ok |-> TRUE, t |-> now + wrap64((-value.v) * Hour)]
                   [] unit = "d" -> [ok |-> TRUE, t |-> now + wrap64((-value.v) * Day)]
                   [] unit = "m" -> [ok |-> TRUE, t |-> now + wrap64((-value.v) * Minute)]
                   [] OTHER -> [ok |-> FALSE, t |-> now]

\* a step chosen with strict comparisons
queryStep_Strict(startTime, endTime) ==
    LET duration == saturate(endTime - startTime) IN
    CASE duration < 6 * Hour -> "300"
      [] duration < 24 * Hour -> "900"
      [] duration < 7 * Day -> "3600"
      [] OTHER -> "7200"

\* prometheus.go:447-459: the step of queryRange
queryStep(startTime, endTime) ==
    LET duration == saturate(endTime - startTime) IN
    CASE duration <= 6 * Hour -> "300"
      [] duration <= 24 * Hour -> "900"
      [] duration <= 7 * Day -> "3600"
      [] OTHER -> "7200"

\* an average as the fraction sum / count
Fraction(num, den) == [num |-> num, den |-> den]

\* prometheus.go:551-561: the loop of calculateStats from sample i on
RECURSIVE statsFrom(_, _, _, _, _)
statsFrom(values, i, sum, peak, min) ==
    IF i > Len(values) THEN [sum |-> sum, peak |-> peak, min |-> min]
    ELSE statsFrom(values, i + 1, sum + values[i].v,
                   IF values[i].v > peak THEN values[i].v ELSE peak,
                   IF values[i].v < min THEN values[i].v ELSE min)

\* a calculateStats whose current is the first sample
calculateStats_CurrentFirst(values) ==
    IF Len(values) = 0
    THEN [avg |-> Fraction(0, 1), peak |-> 0, min |-> 0, current |-> 0]
    ELSE LET r == statsFrom(values, 1, 0, values[1].v, values[1].v) IN
         [avg |-> Fraction(r.sum, Len(values)), peak |-> r.peak, min |-> r.min,
          current |-> values[1].v]

\* prometheus.go:542-565
calculateStats(values) ==
    IF Len(values) = 0
    THEN [avg |-> Fraction(0, 1), peak |-> 0, min |-> 0, current |-> 0]
    ELSE LET r == statsFrom(values, 1, 0, values[1].v, values[1].v) IN
         [avg |-> Fraction(r.sum, Len(values)), peak |-> r.peak, min |-> r.min,
          current |-> values[Len(values)].v]

\* part_000:441-456: calculateTrend; diff > first*0.1 is 10*diff > first
calculateTrend(values) ==
    IF Len(values) < 2 THEN "stable"
    ELSE LET first == values[1].v
             last == values[Len(values)].v
             diff == last - first
         IN IF 10 * diff > first THEN "increasing"
            ELSE IF 10 * diff < -first THEN "decreasing"
            ELSE "stable"

-----------------------------------------------------------------------------
(* Applications of the pure functions to arguments drawn from bounded sets *)

DurationChars == {"0", "1", "5", "h", "d", "m", "x", "H", "-", "."}

\* every string of at most MaxChars of these characters, and some longer ones
DurationInputs ==
    UNION { [1..n -> DurationChars] : n \in 0..MaxChars }
    \cup { <<"a", "b", "c">>, <<"6", "H">>, <<"1", "h", "3", "0", "m">>, <<"2", "4", "h">>,
           <<"0", "0", "0", "7", "d">>, <<"3", "0", "0", "0", "0", "0", "0", "h">>,
           <<"2", "0", "0", "0", "0", "0", "d">>,
           <<"1", "0", "0", "0", "0", "0", "0", "0", "0", "0",
             "0", "0", "0", "0", "0", "0", "0", "0", "0", "0", "h">> }

SampleValues == {-100, 0, 10, 20, 30, 89, 90, 100, 110, 111}

\* the series of at most MaxSamples samples, in the order of their instants
SeriesInputs ==
    UNION { { [i \in 1..n |-> [t |-> Now0 + i, v |-> vs[i]]] : vs \in [1..n -> SampleValues] }
            : n \in 0..MaxSamples }

ApplyParseDuration ==
    /\ fpc = "start"
    /\ fin.f = "parseDuration"
    /\ fout' = parseDuration(fin.arg, Now0)
    /\ fpc' = "applied"
    /\ UNCHANGED <<fin, resourceCache, gvrCache, discVars, gatherVars, runVars, collectVars, analyzeVars>>
    /\ UNCHANGED issued

ApplyCalculateStats ==
    /\ fpc = "start"
    /\ fin.f = "calculateStats"
    /\ fout' = calculateStats(fin.arg)
    /\ fpc' = "applied"
    /\ UNCHANGED <<fin, resourceCache, gvrCache, discVars, gatherVars, runVars, collectVars, analyzeVars>>
    /\ UNCHANGED issued

ApplyCalculateTrend ==
    /\ fpc = "start"
    /\ fin.f = "calculateTrend"
    /\ fout' = calculateTrend(fin.arg)
    /\ fpc' = "applied"
    /\ UNCHANGED <<fin, resourceCache, gvrCache, discVars, gatherVars, runVars, collectVars, analyzeVars>>
    /\ UNCHANGED issued

InitPure ==
    /\ issued = {}
    /\ resourceCache = EmptyMap
    /\ gvrCache = EmptyMap
    /\ DiscoverIdle
    /\ GatherIdle
    /\ RunIdle
    /\ CollectIdle
    /\ AnalyzeIdle
    /\ fpc = "start"
    /\ fin \in { [f |-> "parseDuration", arg |-> d] : d \in DurationInputs }
           \cup { [f |-> g, arg |-> x] : g \in {"calculateStats", "calculateTrend"}, x \in SeriesInputs }
    /\ fout = <<>>

NextPure ==
    \/ ApplyParseDuration
    \/ ApplyCalculateStats
    \/ ApplyCalculateTrend

SpecPure == InitPure /\ [][NextPure]_vars

-----------------------------------------------------------------------------
(* Claims about the pure functions *)

Applied(f) == fpc = "applied" /\ fin.f = f

\* the shape the claim accepts: one or more digits, then h, d or m
DurationShape(d) ==
    /\ Len(d) >= 2
    /\ d[Len(d)] \in {"h", "d", "m"}
    /\ \A i \in 1..(Len(d) - 1) : d[i] \in {"0", "1", "2", "3", "4", "5", "6", "7", "8", "9"}

UnitMinutes(u) == CASE u = "h" -> 60 [] u = "d" -> 1440 [] u = "m" -> 1

\* C13 (as claimed): parseDuration accepts exactly the strings of one or more
\* digits followed by one of h, d, m, and for an accepted string with integer
\* n returns now minus n hours, n*24 hours or n minutes; every other string
\* is rejected.
C13_ParseDuration ==
    Applied("parseDuration") =>
        /\ fout.ok <=> DurationShape(fin.arg)
        /\ fout.ok =>
              Now0 - fout.t = digitsValue(SubSeq(fin.arg, 1, Len(fin.arg) - 1))
                                * UnitMinutes(fin.arg[Len(fin.arg)])

\* what holds of C13 for the numbers of at most four digits
C13_ParseDurationSmall ==
    (Applied("parseDuration") /\ Len(fin.arg) <= 5) =>
        /\ fout.ok <=> DurationShape(fin.arg)
        /\ fout.ok =>
              Now0 - fout.t = digitsValue(SubSeq(fin.arg, 1, Len(fin.arg) - 1))
                                * UnitMinutes(fin.arg[Len(fin.arg)])

RECURSIVE SumTo(_, _)
SumTo(values, n) == IF n = 0 THEN 0 ELSE SumTo(values, n - 1) + values[n].v

ValuesOf(values) == { values[i].v : i \in DOMAIN values }

\* the sample no other sample is later than
LatestSample(values) ==
    CHOOSE x \in { values[i] : i \in DOMAIN values } :
        \A i \in DOMAIN values : values[i].t <= x.t

\* C18: on a non-empty series calculateStats returns the arithmetic mean, the
\* maximum, the minimum and the value of the chronologically last sample; on
\* an empty series it returns 0 for all four.
C18_Stats ==
    Applied("calculateStats") =>
        IF fin.arg = <<>>
        THEN /\ fout.avg.num = 0 /\ fout.avg.den # 0
             /\ fout.peak = 0 /\ fout.min = 0 /\ fout.current = 0
        ELSE /\ fout.avg.den > 0
             /\ fout.avg.num * Len(fin.arg) = SumTo(fin.arg, Len(fin.arg)) * fout.avg.den
             /\ fout.peak \in ValuesOf(fin.arg) /\ \A v \in ValuesOf(fin.arg) : v <= fout.peak
             /\ fout.min \in ValuesOf(fin.arg) /\ \A v \in ValuesOf(fin.arg) : fout.min <= v
             /\ fout.current = LatestSample(fin.arg).v

\* the series 10, 30, 20 gave 20, 30, 10, 20
C18_Witness ==
    /\ Applied("calculateStats")
    /\ Len(fin.arg) = 3
    /\ fin.arg[1].v = 10 /\ fin.arg[2].v = 30 /\ fin.arg[3].v = 20
    /\ fout.avg.num = 20 * fout.avg.den
    /\ fout.peak = 30 /\ fout.min = 10 /\ fout.current = 20

\* C19 (as claimed): calculateTrend returns "increasing" exactly when last
\* exceeds first by more than 10% of first, "decreasing" exactly when last is
\* below first by more than 10% of first, "stable" otherwise, in particular
\* when last equals first and when there are fewer than two samples; for
\* every first value, zero and negative ones included.
C19_Trend ==
    Applied("calculateTrend") =>
        IF Len(fin.arg) < 2 THEN fout = "stable"
        ELSE LET first == fin.arg[1].v
                 last == fin.arg[Len(fin.arg)].v
             IN /\ fout = "increasing" <=> 10 * (last - first) > first
                /\ fout = "decreasing" <=> 10 * (first - last) > first
                /\ fout \in {"increasing", "decreasing", "stable"}
                /\ last = first => fout = "stable"

\* what holds of C19 when the first sample is not negative
C19_TrendNonNegative ==
    (Applied("calculateTrend") /\ Len(fin.arg) >= 2 /\ fin.arg[1].v >= 0) =>
        LET first == fin.arg[1].v
            last == fin.arg[Len(fin.arg)].v
        IN /\ fout = "increasing" <=> 10 * (last - first) > first
           /\ fout = "decreasing" <=> 10 * (first - last) > first
           /\ last = first => fout = "stable"

-----------------------------------------------------------------------------
(* PrometheusClient.GatherMetrics and collectResourceMetrics *)

\* types.go:218-230: GetStandardQueries, by name
StandardQueries ==
    <<"cpu_utilization", "cpu_requests", "cpu_limits", "memory_utilization",
      "memory_requests", "memory_limits", "pod_replicas", "pod_available">>

\* prometheus.go:400: the metrics that have an alternative query
hasAlternative(name) == name \in {"cpu_utilization", "memory_utilization"}

FewSamples == 10

\* a resource handed to GatherMetrics: a typed object (form "typed", kind its
\* Go type), a typed list, an *unstructured.Unstructured or a map
Resource(form, kind, name, namespace) ==
    [form |-> form, kind |-> kind, name |-> name, namespace |-> namespace]

\* prometheus.go:298-366: extractResourceInfoFromK8sObject
extractResourceInfoFromK8sObject(r) ==
    CASE r.form = "typed" -> [ok |-> TRUE, name |-> r.name, type |-> r.kind, namespace |-> r.namespace]
      [] r.form = "map" -> [ok |-> r.kind # "", name |-> r.name, type |-> r.kind,
                            namespace |-> IF r.namespace = "" THEN "default" ELSE r.namespace]
      [] OTHER -> [ok |-> FALSE, name |-> "", type |-> "", namespace |-> ""]

\* what one range query returns: an error, or the samples of the first series
Failed == [err |-> TRUE, values |-> <<>>]

RECURSIVE Series(_, _)
Series(n, base) ==
    IF n = 0 THEN <<>> ELSE Append(Series(n - 1, base), [t |-> n, v |-> base + n])

Samples(n, base) == [err |-> FALSE, values |-> Series(n, base)]

\* answers of the server to a primary query
PrimaryOutcomes(name) ==
    IF hasAlternative(name)
    THEN {Failed, Samples(0, 0), Samples(FewSamples - 1, 0), Samples(FewSamples, 0)}
    ELSE {Failed, Samples(0, 0), Samples(2, 0)}

\* answers of the server to an alternative query
AlternativeOutcomes ==
    {Failed, Samples(FewSamples - 1, 100), Samples(FewSamples + 2, 100)}

\* a query that is skipped only when it fails
skipMetric_OnlyErrors(o) == o.err

\* prometheus.go:389-397: the metric is skipped
skipMetric(o) == o.err \/ Len(o.values) = 0

\* prometheus.go:417-419: the alternative series replaces a shorter one
keepLarger(values, alt) ==
    IF ~alt.err /\ Len(alt.values) > Len(values) THEN alt.values ELSE values

\* prometheus.go:424-435
MetricValue(name, values) ==
    LET st == calculateStats(values) IN
    [Name |-> name, Values |-> values, Average |-> st.avg, Peak |-> st.peak,
     Minimum |-> st.min, Current |-> st.current]

\* the record of one range query: which resource and metric, primary or
\* alternative, the window, the step, what the server answered
QueryLog(kind, startTime, endTime, o) ==
    [res |-> cres + 1, name |-> StandardQueries[cq], kind |-> kind, start |-> startTime,
     end |-> endTime, step |-> queryStep(startTime, endTime), answer |-> o]

\* prometheus.go:383, 436-438 and 283-292: the loop over the queries goes on, or
\* collectResourceMetrics returns the map and GatherMetrics stores it
NextQuery(metrics) ==
    IF cq < Len(StandardQueries)
    THEN /\ cq' = cq + 1
         /\ cpc' = "query"
         /\ cmetrics' = metrics
         /\ UNCHANGED <<cdata, cres>>
    ELSE LET info == extractResourceInfoFromK8sObject(cin.resources[cres + 1]) IN
         /\ cdata' = Put(cdata, <<info.namespace, info.name>>,
                         [ResourceName |-> info.name, ResourceType |-> info.type,
                          Namespace |-> info.namespace, Metrics |-> metrics,
                          Duration |-> cin.duration])
         /\ cres' = cres + 1
         /\ cq' = 0
         /\ cmetrics' = EmptyMap
         /\ cpc' = "loop"

\* prometheus.go:265-278, 371-374: the next resource; one that cannot be read
\* or is not a Deployment is skipped, for a Deployment collectResourceMetrics
\* starts and reads the clock for endTime
NextResource ==
    /\ cpc = "loop"
    /\ cres < Len(cin.resources)
    /\ LET info == extractResourceInfoFromK8sObject(cin.resources[cres + 1]) IN
       IF ~info.ok \/ info.type # "Deployment"
       THEN /\ cres' = cres + 1
            /\ UNCHANGED <<cpc, cend>>
       ELSE /\ cpc' = "parse"
            /\ cend' = cnow
            /\ UNCHANGED cres
    /\ UNCHANGED <<cin, cnow, cstart, cq, cvalues, cmetrics, cdata, cerr, clog>>
    /\ UNCHANGED <<resourceCache, gvrCache, discVars, gatherVars, runVars, pureVars, analyzeVars>>
    /\ UNCHANGED issued

\* prometheus.go:375-378, 279-281: parseDuration reads the clock, which has
\* moved on by elapsed; an invalid duration ends GatherMetrics with nil and
\* the error
ParseDuration(elapsed) ==
    /\ cpc = "parse"
    /\ cnow' = cnow + elapsed
    /\ LET r == parseDuration(cin.duration, cnow') IN
       IF ~r.ok
       THEN /\ cerr' = "invalidDuration"
            /\ cdata' = EmptyMap
            /\ cpc' = "done"
            /\ UNCHANGED <<cstart, cq>>
       ELSE /\ cstart' = r.t
            /\ cq' = 1
            /\ cpc' = "query"
            /\ UNCHANGED <<cerr, cdata>>
    /\ UNCHANGED <<cin, cres, cend, cvalues, cmetrics, clog>>
    /\ UNCHANGED <<resourceCache, gvrCache, discVars, gatherVars, runVars, pureVars, analyzeVars>>
    /\ UNCHANGED issued

\* prometheus.go:383-400, 424-435: one catalog query
PrimaryQuery(o) ==
    /\ cpc = "query"
    /\ o \in PrimaryOutcomes(StandardQueries[cq])
    /\ clog' = clog \cup {QueryLog("primary", cstart, cend, o)}
    /\ IF skipMetric(o)
       THEN NextQuery(cmetrics) /\ UNCHANGED cvalues
       ELSE IF Len(o.values) < FewSamples /\ hasAlternative(StandardQueries[cq])
       THEN /\ cvalues' = o.values
            /\ cpc' = "alternative"
            /\ UNCHANGED <<cq, cmetrics, cdata, cres>>
       ELSE /\ NextQuery(Put(cmetrics, StandardQueries[cq],
                             MetricValue(StandardQueries[cq], o.values)))
            /\ UNCHANGED cvalues
    /\ UNCHANGED <<cin, cnow, cend, cstart, cerr>>
    /\ UNCHANGED <<resourceCache, gvrCache, discVars, gatherVars, runVars, pureVars, analyzeVars>>
    /\ UNCHANGED issued

\* prometheus.go:400-435: the alternative query over the last 24 hours
AlternativeQuery(o) ==
    /\ cpc = "alternative"
    /\ o \in AlternativeOutcomes
    /\ LET altStartTime == cend - 24 * Hour IN
       clog' = clog \cup {QueryLog("alternative", altStartTime, cend, o)}
    /\ NextQuery(Put(cmetrics, StandardQueries[cq],
                     MetricValue(StandardQueries[cq], keepLarger(cvalues, o))))
    /\ cvalues' = <<>>
    /\ UNCHANGED <<cin, cnow, cend, cstart, cerr>>
    /\ UNCHANGED <<resourceCache, gvrCache, discVars, gatherVars, runVars, pureVars, analyzeVars>>
    /\ UNCHANGED issued

\* prometheus.go:265, 294: the resources are exhausted
ReturnMetrics ==
    /\ cpc = "loop"
    /\ cres = Len(cin.resources)
    /\ cerr' = "none"
    /\ cpc' = "done"
    /\ UNCHANGED <<cin, cres, cnow, cend, cstart, cq, cvalues, cmetrics, cdata, clog>>
    /\ UNCHANGED <<resourceCache, gvrCache, discVars, gatherVars, runVars, pureVars, analyzeVars>>
    /\ UNCHANGED issued

R_web == Resource("typed", "Deployment", "web", "prod")

\* the resource lists handed to GatherMetrics
ResourceLists ==
    { <<>>,
      <<Resource("list", "DeploymentList", "", ""), Resource("typed", "Pod", "web-1", "prod")>>,
      <<Resource("unstructured", "Widget", "w1", "prod"), R_web,
        Resource("map", "ConfigMap", "cfg", "")>> }

\* the duration strings handed to GatherMetrics
CollectDurations ==
    { <<"6", "h">>, <<"2", "4", "h">>, <<"7", "d">>, <<"a", "b", "c">>, <<"5", "x">>,
      <<"2", "0", "0", "0", "0", "0", "d">> }

\* minutes the clock can move between two readings
ClockSteps == {0, 1}

InitCollect ==
    /\ issued = {}
    /\ resourceCache = EmptyMap
    /\ gvrCache = EmptyMap
    /\ DiscoverIdle
    /\ GatherIdle
    /\ RunIdle
    /\ PureIdle
    /\ AnalyzeIdle
    /\ cin \in [resources : ResourceLists, duration : CollectDurations]
    /\ cpc = "loop"
    /\ cres = 0
    /\ cnow = Now0
    /\ cend = 0
    /\ cstart = 0
    /\ cq = 0
    /\ cvalues = <<>>
    /\ cmetrics = EmptyMap
    /\ cdata = EmptyMap
    /\ cerr = "running"
    /\ clog = {}

NextCollect ==
    \/ NextResource
    \/ \E elapsed \in ClockSteps : ParseDuration(elapsed)
    \/ \E o \in PrimaryOutcomes("cpu_utilization") \cup PrimaryOutcomes("cpu_requests") : PrimaryQuery(o)
    \/ \E o \in AlternativeOutcomes : AlternativeQuery(o)
    \/ ReturnMetrics

SpecCollect == InitCollect /\ [][NextCollect]_vars

-----------------------------------------------------------------------------
(* Claims about GatherMetrics *)

Returned == cpc = "done"

Rejected == ~parseDuration(cin.duration, cnow).ok

\* C14: every GatherMetrics call made with a duration that parseDuration
\* rejects returns an error and no metrics data, whatever the resources
C14_InvalidDurationFatal ==
    (Returned /\ Rejected) => (cerr # "none" /\ cdata = EmptyMap)

\* the step the table gives for a span: at most 6 h, at most 24 h, at most
\* 7 d, longer
StepOfSpan(span) ==
    IF span <= 360 THEN "300"
    ELSE IF span <= 1440 THEN "900"
    ELSE IF span <= 10080 THEN "3600"
    ELSE "7200"

NominalStep(duration) ==
    CASE duration = <<"6", "h">> -> "300"
      [] duration = <<"2", "4", "h">> -> "900"
      [] duration = <<"7", "d">> -> "3600"
      [] OTHER -> "none"

\* C15: the step of every range query is the table's step for end - start,
\* and the primary queries of a call with "6h", "24h" or "7d" have step 300,
\* 900 and 3600
C15_StepOfSpan ==
    \A e \in clog :
        /\ e.step = StepOfSpan(e.end - e.start)
        /\ (e.kind = "primary" /\ NominalStep(cin.duration) # "none")
              => e.step = NominalStep(cin.duration)

\* a primary query was issued with a span of exactly 6 h, one of a "24h"
\* call after the clock had moved, and an alternative query
C15_Witness ==
    /\ \E e \in clog : e.kind = "alternative" /\ e.step = "900"
    /\ \/ \E e \in clog : e.kind = "primary" /\ e.end - e.start = 360 /\ e.step = "300"
       \/ \E e \in clog : e.kind = "primary" /\ e.end - e.start = 1439 /\ e.step = "900"

\* the positions of the Deployments in the resources
Deployments ==
    {r \in 1..Len(cin.resources) :
        cin.resources[r].form = "typed" /\ cin.resources[r].kind = "Deployment"}

KeyOf(r) == <<cin.resources[r].namespace, cin.resources[r].name>>

PrimaryOf(r, name) == {e \in clog : e.res = r /\ e.name = name /\ e.kind = "primary"}

CatalogNames == {StandardQueries[i] : i \in 1..Len(StandardQueries)}

\* C16: with a valid duration no error is returned, every catalog query of a
\* Deployment was executed, and its map holds exactly the metrics whose
\* query succeeded with at least one sample
C16_PartialCatalog ==
    (Returned /\ ~Rejected) =>
        /\ cerr = "none"
        /\ \A r \in Deployments :
              /\ KeyOf(r) \in DOMAIN cdata
              /\ \A name \in CatalogNames : PrimaryOf(r, name) # {}
              /\ DOMAIN cdata[KeyOf(r)].Metrics =
                    {name \in CatalogNames :
                        \E e \in PrimaryOf(r, name) : ~e.answer.err /\ Len(e.answer.values) > 0}

\* a call returned a partial catalog: a failed query and an empty one were
\* followed by a stored metric
C16_Witness ==
    /\ Returned /\ ~Rejected
    /\ \E r \in Deployments :
          /\ \E e \in PrimaryOf(r, "cpu_utilization") : e.answer.err
          /\ \E e \in PrimaryOf(r, "memory_limits") : ~e.answer.err /\ Len(e.answer.values) = 0
          /\ DOMAIN cdata[KeyOf(r)].Metrics = {"pod_available"}

AlternativeOf(r, name) == {e \in clog : e.res = r /\ e.name = name /\ e.kind = "alternative"}

\* the series the claim says is stored: the longer one, the primary on a tie
\* or when the retry failed
LongerOf(p, a) ==
    IF ~a.answer.err /\ Len(a.answer.values) > Len(p.answer.values)
    THEN a.answer.values ELSE p.answer.values

\* what holds of a retry: the window is the 24 hours before the end of the
\* primary one, the metric is a utilization, the stored series is the longer
RetryRule(r) ==
    /\ \A name \in CatalogNames : \A a \in AlternativeOf(r, name) :
          /\ name \in {"cpu_utilization", "memory_utilization"}
          /\ a.start = a.end - 1440
          /\ \A p \in PrimaryOf(r, name) :
                /\ a.end = p.end
                /\ cdata[KeyOf(r)].Metrics[name].Values = LongerOf(p, a)

\* C17 as stated: for the two utilizations a primary result with fewer than
\* 10 samples is always retried
C17_RetryBelowTen ==
    Returned =>
        \A r \in Deployments \cap {r \in 1..Len(cin.resources) : KeyOf(r) \in DOMAIN cdata} :
            /\ RetryRule(r)
            /\ \A name \in {"cpu_utilization", "memory_utilization"} :
                  \A p \in PrimaryOf(r, name) :
                      (~p.answer.err /\ Len(p.answer.values) < 10) => AlternativeOf(r, name) # {}

\* C17, amended: a primary result with at least one and fewer than 10
\* samples is retried; an empty one drops the metric without a retry
C17_RetryBelowTenAmended ==
    Returned =>
        \A r \in Deployments \cap {r \in 1..Len(cin.resources) : KeyOf(r) \in DOMAIN cdata} :
            /\ RetryRule(r)
            /\ \A name \in {"cpu_utilization", "memory_utilization"} :
                  \A p \in PrimaryOf(r, name) :
                      (~p.answer.err /\ Len(p.answer.values) \in 1..9)
                          <=> AlternativeOf(r, name) # {}

\* a call returned after a retry that brought more samples, and after one
\* that only tied
C17_Witness ==
    /\ Returned
    /\ \E r \in Deployments :
          /\ \E a \in AlternativeOf(r, "cpu_utilization") :
                /\ Len(a.answer.values) = 12
                /\ cdata[KeyOf(r)].Metrics["cpu_utilization"].Values = a.answer.values
          /\ \E a \in AlternativeOf(r, "memory_utilization") : \E p \in PrimaryOf(r, "memory_utilization") :
                /\ Len(a.answer.values) = 9
                /\ cdata[KeyOf(r)].Metrics["memory_utilization"].Values = p.answer.values

\* C28: for every duration parseDuration accepts, the start time is not later
\* than the end time used by collectResourceMetrics, so that every range
\* query has start <= end, also when value x unit leaves the signed 64-bit
\* nanosecond range
C28_StartNotAfterEnd ==
    /\ (cpc \in {"query", "alternative"}) => cstart <= cend
    /\ \A e \in clog : e.start <= e.end

\* what holds of C28 for the durations whose product stays in the range
C28_StartNotAfterEndInRange ==
    Len(cin.duration) <= 3 =>
        /\ (cpc \in {"query", "alternative"}) => cstart <= cend
        /\ \A e \in clog : e.start <= e.end

-----------------------------------------------------------------------------
(* The metrics pipeline: runMetrics hands what GatherResources returned to
   GatherMetrics *)

\* the value of --namespace
metricsNamespace == "prod"

\* prometheus.go:310-341 on a value of the result map: a typed object is a
\* struct with ObjectMeta whose type name is its kind; a typed list and an
\* *unstructured.Unstructured are structs without ObjectMeta
asResource(v) ==
    CASE v.form = "typed" -> Resource("typed", v.obj.kind, v.obj.name, metricsNamespace)
      [] v.form = "unstructured" -> Resource("unstructured", v.obj.kind, v.obj.name, metricsNamespace)
      [] OTHER -> Resource("list", v.form, "", "")

\* part_006:176-179: the values of the map, appended to a slice in the order
\* the iteration over the map takes
RECURSIVE resourcesList(_, _)
resourcesList(resourcesData, keys) ==
    IF keys = {} THEN <<>>
    ELSE LET k == CHOOSE x \in keys : TRUE IN
         <<asResource(resourcesData[k])>> \o resourcesList(resourcesData, keys \ {k})

\* part_006:162-181: GatherResources has returned nil error and GatherMetrics
\* is called with the values of its map and --duration
StartGatherMetrics(duration) ==
    /\ gpc = "done"
    /\ gmode = "resources"
    /\ ~gerr
    /\ cpc = "idle"
    /\ cin' = [resources |-> resourcesList(result, DOMAIN result), duration |-> duration]
    /\ cpc' = "loop"
    /\ cnow' = Now0
    /\ UNCHANGED <<cres, cend, cstart, cq, cvalues, cmetrics, cdata, cerr, clog>>
    /\ UNCHANGED <<resourceCache, gvrCache, discVars, gatherVars, runVars, pureVars, analyzeVars>>
    /\ UNCHANGED issued

\* values of --duration
PipelineDurations == { <<"2", "4", "h">>, <<"7", "d">> }

\* a metrics command whose gather call and metrics collection are followed
\* step by step (runMetrics calls GatherResources, part_006:162)
InitPipeline == InitGather /\ gmode = "resources"

NextPipeline ==
    \/ \E ref \in RefUniverse : NextRef(ref)
    \/ \E fail \in BOOLEAN : NativeGet(fail)
    \/ \E fail \in BOOLEAN : NativePods(fail)
    \/ \E o \in DiscoveryOutcomes : GatherDiscover(o)
    \/ \E fail \in BOOLEAN : DynamicGet(fail)
    \/ \E fail \in BOOLEAN : DynamicPods(fail)
    \/ EndRefs
    \/ \E fails \in SUBSET Categories : GatherAll(fails)
    \/ \E fail \in BOOLEAN : Events(fail)
    \/ \E duration \in PipelineDurations : StartGatherMetrics(duration)
    \/ NextResource
    \/ ParseDuration(0)
    \/ \E o \in {Samples(2, 0), Samples(FewSamples - 1, 0)} : PrimaryQuery(o)
    \/ AlternativeQuery(Failed)
    \/ ReturnMetrics

SpecPipeline == InitPipeline /\ [][NextPipeline]_vars

\* the Deployments that exist in the namespace
DeploymentsInNamespace == {o \in cluster.objs : o.kind = "Deployment" /\ o.namespaced}

\* C24: run with --all, the pipeline GatherResources(all) -> GatherMetrics
\* produces for every Deployment of the namespace a MetricsData entry keyed
\* "<namespace>/<name>"
C24_AllDeployments ==
    (gall /\ cpc = "done" /\ cerr = "none") =>
        \A o \in DeploymentsInNamespace : <<metricsNamespace, o.name>> \in DOMAIN cdata

\* what holds instead: a Deployment named on the command line and read by
\* the typed Get has its entry
C24_NamedDeployment ==
    (~gall /\ cpc = "done" /\ cerr = "none") =>
        \A ref \in DOMAIN glog :
            (glog[ref].via = "typed" /\ glog[ref].obj.kind = "Deployment") =>
                <<metricsNamespace, glog[ref].obj.name>> \in DOMAIN cdata

\* with --all the metrics data is empty, whatever the namespace holds
C24_AllGivesNothing ==
    (gall /\ cpc = "done") => cdata = EmptyMap

-----------------------------------------------------------------------------
(* The Analyzer: AnalyzeMetrics over the entries of request.MetricsData, and
   the display of what it returned. Result.Timestamp, the reading of the
   clock, is left out of the results. *)

\* part_000:459-468
calculateUtilization(average, peak) ==
    IF peak > 90 THEN "critical"
    ELSE IF peak > 70 THEN "high"
    ELSE IF peak > 30 THEN "medium"
    ELSE "low"

\* the HorizontalPodAutoscaler named as the resource, when there is one
HPA_web == [MinReplicas |-> 2, MaxReplicas |-> 6, CurrentReplicas |-> 3, TargetCPU |-> 75]

\* part_000:237-281: the ScalingConfig made of the HPA the v2 Get, or else
\* the v1 Get, returned; an error when both Gets fail
ScalingConfigOfHPA(hpa) ==
    IF hpa \in {"v2", "v1"}
    THEN [err |-> FALSE,
          config |-> [Type |-> "hpa", MinReplicas |-> HPA_web.MinReplicas,
                      MaxReplicas |-> HPA_web.MaxReplicas,
                      CurrentSize |-> HPA_web.CurrentReplicas, TargetCPU |-> HPA_web.TargetCPU]]
    ELSE [err |-> TRUE, config |-> [Type |-> "nil"]]

\* part_000:219-234: the HPA first; getKEDAConfig (part_000:284-294) is a
\* placeholder that always returns an error
getCurrentScalingConfig(hpa) ==
    LET hpaConfig == ScalingConfigOfHPA(hpa) IN
    IF ~hpaConfig.err THEN hpaConfig
    ELSE [err |-> TRUE, config |-> [Type |-> "nil"]]

\* part_000:107-113
NoScaling == [Type |-> "none", MinReplicas |-> 1, MaxReplicas |-> 1, CurrentSize |-> 1, TargetCPU |-> 0]

\* part_000:306-331: the target for one metric
recommendedTarget(Metrics, name) ==
    IF name \in DOMAIN Metrics /\ Metrics[name].Average.num > 0
    THEN IF Metrics[name].Peak > 80 THEN 70
         ELSE IF Metrics[name].Peak > 60 THEN 60
         ELSE 50
    ELSE 0

\* part_000:297-336; YAMLConfig is the rendering of the recommendation for
\* the resource
generateHPARecommendation(metricsData) ==
    [nil |-> FALSE, Enabled |-> TRUE, MinReplicas |-> 2, MaxReplicas |-> 10,
     TargetCPU |-> recommendedTarget(metricsData.Metrics, "cpu_utilization"),
     TargetMemory |-> recommendedTarget(metricsData.Metrics, "memory_utilization"),
     YAMLConfig |-> <<"HorizontalPodAutoscaler", metricsData.Namespace, metricsData.ResourceName>>]

\* part_000:339-372
generateKEDARecommendation(metricsData) ==
    [nil |-> FALSE, Enabled |-> TRUE, MinReplicas |-> 0, MaxReplicas |-> 10,
     PollingInterval |-> 30, CooldownPeriod |-> 300,
     Scalers |-> IF "cpu_utilization" \in DOMAIN metricsData.Metrics THEN <<"cpu-scaler">> ELSE <<>>,
     YAMLConfig |-> <<"ScaledObject", metricsData.Namespace, metricsData.ResourceName>>]

\* a nil recommendation
NoRecommendation == [nil |-> TRUE]

\* part_000:117
wantsAI(req) == req.AnalyzeScaling \/ req.HPAAnalysis \/ req.KEDAAnalysis

\* an analyzeResource that takes a failed lookup of the autoscaler for an
\* error of its own
analyzeResource_LookupFatal(metricsData, req, hpa, chat) ==
    IF getCurrentScalingConfig(hpa).err \/ (wantsAI(req) /\ chat.err)
    THEN [err |-> TRUE, result |-> NoAnalysis]
    ELSE [err |-> FALSE,
          result |-> [nil |-> FALSE, ResourceName |-> metricsData.ResourceName,
                      CurrentConfig |-> getCurrentScalingConfig(hpa).config]]

\* part_000:56-145: the result for one entry, given what the HPA Gets and
\* a.llm.Chat answer
analyzeResource(metricsData, req, hpa, chat) ==
    LET lookup == getCurrentScalingConfig(hpa)
        currentConfig == IF lookup.err THEN NoScaling ELSE lookup.config
    IN IF wantsAI(req) /\ chat.err
       THEN [err |-> TRUE, result |-> NoAnalysis]
       ELSE [err |-> FALSE,
             result |->
               [nil |-> FALSE,
                ResourceName |-> metricsData.ResourceName,
                ResourceType |-> metricsData.ResourceType,
                Namespace |-> metricsData.Namespace,
                MetricsSummary |->
                    [name \in DOMAIN metricsData.Metrics |->
                        LET metric == metricsData.Metrics[name] IN
                        [Name |-> metric.Name, Average |-> metric.Average, Peak |-> metric.Peak,
                         Minimum |-> metric.Minimum, Current |-> metric.Current,
                         Trend |-> calculateTrend(metric.Values),
                         Utilization |-> calculateUtilization(metric.Average, metric.Peak)]],
                ScalingEvents |->
                    IF "pod_replicas" \in DOMAIN metricsData.Metrics
                    THEN Len(metricsData.Metrics["pod_replicas"].Values) ELSE 0,
                CurrentConfig |-> currentConfig,
                Summary |-> IF wantsAI(req) THEN chat.text ELSE "",
                HPAConfig |-> IF req.HPAAnalysis THEN generateHPARecommendation(metricsData)
                              ELSE NoRecommendation,
                KEDAConfig |-> IF req.KEDAAnalysis THEN generateKEDARecommendation(metricsData)
                               ELSE NoRecommendation]]

\* part_000:49-52
Placeholder ==
    [nil |-> FALSE, ResourceName |-> "", ResourceType |-> "", Namespace |-> "",
     MetricsSummary |-> EmptyMap, ScalingEvents |-> 0, CurrentConfig |-> [Type |-> "nil"],
     Summary |-> "No resources found to analyze", HPAConfig |-> NoRecommendation,
     KEDAConfig |-> NoRecommendation]

\* answers of a.llm.Chat
ChatOutcomes == {[err |-> TRUE, text |-> ""], [err |-> FALSE, text |-> "advice"]}

\* part_000:35-41: one iteration of the range over request.MetricsData, in
\* whichever order the map yields the keys; the first error ends the call
AnalyzeResource(key, hpa, chat) ==
    /\ apc = "range"
    /\ key \in atodo
    /\ hpa # "noResource"
    /\ answers' = Put(answers, key, [hpa |-> hpa, chat |-> chat])
    /\ atodo' = atodo \ {key}
    /\ LET r == analyzeResource(request.MetricsData[key], request, hpa, chat) IN
       IF r.err
       THEN /\ aerr' = "analysis"
            /\ apc' = "done"
            /\ UNCHANGED <<results, analysis>>
       ELSE /\ results' = Put(results, key, r.result)
            /\ UNCHANGED <<apc, aerr, analysis>>
    /\ UNCHANGED <<request, printed>>
    /\ UNCHANGED <<resourceCache, gvrCache, discVars, gatherVars, runVars, collectVars, pureVars>>
    /\ Send(getHPAConfig(hpa))

\* part_000:44-47: the first result the range over results yields
ReturnFirst(key) ==
    /\ apc = "range"
    /\ atodo = {}
    /\ key \in DOMAIN results
    /\ analysis' = results[key]
    /\ aerr' = "none"
    /\ apc' = "display"
    /\ UNCHANGED <<request, atodo, results, printed, answers>>
    /\ UNCHANGED <<resourceCache, gvrCache, discVars, gatherVars, runVars, collectVars, pureVars>>
    /\ UNCHANGED issued

\* part_000:49-52: there is no result
ReturnPlaceholder ==
    /\ apc = "range"
    /\ atodo = {}
    /\ DOMAIN results = {}
    /\ analysis' = Placeholder
    /\ aerr' = "none"
    /\ apc' = "display"
    /\ UNCHANGED <<request, atodo, results, printed, answers>>
    /\ UNCHANGED <<resourceCache, gvrCache, discVars, gatherVars, runVars, collectVars, pureVars>>
    /\ UNCHANGED issued

\* part_006:251-395; the package variable analyzeScaling is the flag that
\* runMetrics copied into request.AnalyzeScaling (part_006:217)
displayMetricsHuman(a, analyzeScaling) ==
    {"resource", "charts"}
    \cup (IF analyzeScaling /\ a.Summary # "" THEN {"ai analysis"} ELSE {})
    \cup (IF analyzeScaling /\ ~a.HPAConfig.nil THEN {"hpa recommendations"} ELSE {})
    \cup (IF analyzeScaling /\ ~a.KEDAConfig.nil THEN {"keda recommendations"} ELSE {})

\* part_006:240-249, 397-405
displayMetricsResults(a, analyzeScaling, outputFormat) ==
    CASE outputFormat = "json" -> {"JSON output not implemented yet"}
      [] outputFormat = "yaml" -> {"YAML output not implemented yet"}
      [] OTHER -> displayMetricsHuman(a, analyzeScaling)

\* part_006:224-236: AnalyzeMetrics returned nil error and its result is
\* displayed
DisplayResults(outputFormat) ==
    /\ apc = "display"
    /\ printed' = displayMetricsResults(analysis, request.AnalyzeScaling, outputFormat)
    /\ apc' = "done"
    /\ UNCHANGED <<request, atodo, results, analysis, aerr, answers>>
    /\ UNCHANGED <<resourceCache, gvrCache, discVars, gatherVars, runVars, collectVars, pureVars>>
    /\ UNCHANGED issued

\* the metrics GatherMetrics collected for a resource
Metrics_hot ==
    ("cpu_utilization" :> MetricValue("cpu_utilization", Series(2, 85)))
    @@ ("memory_utilization" :> MetricValue("memory_utilization", Series(2, 60)))
    @@ ("pod_replicas" :> MetricValue("pod_replicas", Series(2, 1)))
Metrics_cool == ("cpu_utilization" :> MetricValue("cpu_utilization", Series(3, 10)))
Metrics_idle == ("memory_utilization" :> MetricValue("memory_utilization", Series(1, -1)))

MetricsDataOf(name, Metrics) ==
    [ResourceName |-> name, ResourceType |-> "Deployment", Namespace |-> "prod", Metrics |-> Metrics]

EntryInputs(name) == {MetricsDataOf(name, m) : m \in {Metrics_hot, Metrics_cool, Metrics_idle}}

\* request.MetricsData: no entry, one, two
MetricsDataInputs ==
    {EmptyMap}
    \cup {"prod/web" :> e : e \in EntryInputs("web")}
    \cup {("prod/web" :> e) @@ ("prod/api" :> f) : e \in EntryInputs("web"), f \in EntryInputs("api")}

OutputFormats == {"human", "json", "yaml"}

InitAnalyze ==
    /\ issued = {}
    /\ resourceCache = EmptyMap
    /\ gvrCache = EmptyMap
    /\ DiscoverIdle
    /\ GatherIdle
    /\ RunIdle
    /\ CollectIdle
    /\ PureIdle
    /\ apc = "range"
    /\ request \in [MetricsData : MetricsDataInputs, AnalyzeScaling : BOOLEAN,
                     HPAAnalysis : BOOLEAN, KEDAAnalysis : BOOLEAN]
    /\ atodo = DOMAIN request.MetricsData
    /\ results = EmptyMap
    /\ analysis = NoAnalysis
    /\ aerr = "running"
    /\ printed = {}
    /\ answers = EmptyMap

NextAnalyze ==
    \/ \E key \in {"prod/web", "prod/api"}, hpa \in HPAOutcomes, chat \in ChatOutcomes :
            AnalyzeResource(key, hpa, chat)
    \/ \E key \in {"prod/web", "prod/api"} : ReturnFirst(key)
    \/ ReturnPlaceholder
    \/ \E outputFormat \in OutputFormats : DisplayResults(outputFormat)

SpecAnalyze == InitAnalyze /\ [][NextAnalyze]_vars

-----------------------------------------------------------------------------
(* Claims about the Analyzer *)

\* AnalyzeMetrics has returned
Analyzed == apc \in {"display", "done"} /\ aerr # "running"

\* what analyzeResource made of the entry under key, given the answers it got
Outcome(key) ==
    analyzeResource(request.MetricsData[key], request, answers[key].hpa, answers[key].chat)

\* C21: every result of analyzeResource carries one non-nil CurrentConfig, of
\* type "hpa" when an autoscaler for the resource was found and otherwise of
\* type "none" with min = max = current = 1; and analyzeResource never
\* returns an error because no autoscaler was found or its lookup failed.
C21_CurrentConfig ==
    /\ \A key \in DOMAIN results :
          IF answers[key].hpa \in {"v2", "v1"}
          THEN results[key].CurrentConfig.Type = "hpa"
          ELSE /\ results[key].CurrentConfig.Type = "none"
               /\ results[key].CurrentConfig.MinReplicas = 1
               /\ results[key].CurrentConfig.MaxReplicas = 1
               /\ results[key].CurrentConfig.CurrentSize = 1
    /\ \A key \in DOMAIN answers :
          key \notin DOMAIN results => (wantsAI(request) /\ answers[key].chat.err)

\* two resources were analyzed without error, one with an HPA and one whose
\* HPA lookup failed
C21_Witness ==
    /\ Analyzed
    /\ aerr = "none"
    /\ \E k1, k2 \in DOMAIN results :
          /\ answers[k1].hpa = "v1" /\ results[k1].CurrentConfig.Type = "hpa"
          /\ answers[k2].hpa = "none" /\ results[k2].CurrentConfig.Type = "none"

\* C25: with --hpa-analysis, with or without --analyze, an HPARecommendation
\* is computed for the resource and the human-readable display prints it;
\* likewise with --keda-analysis for the KEDA recommendation.
C25_RecommendationsPrinted ==
    (apc = "done" /\ aerr = "none" /\ "resource" \in printed /\ analysis # Placeholder) =>
        /\ request.HPAAnalysis =>
              (~analysis.HPAConfig.nil /\ "hpa recommendations" \in printed)
        /\ request.KEDAAnalysis =>
              (~analysis.KEDAConfig.nil /\ "keda recommendations" \in printed)

\* what holds instead: the recommendations are computed with their flag and
\* printed when --analyze is given too
C25_PrintedWithAnalyze ==
    (apc = "done" /\ aerr = "none" /\ "resource" \in printed /\ analysis # Placeholder) =>
        /\ ~analysis.HPAConfig.nil <=> request.HPAAnalysis
        /\ ~analysis.KEDAConfig.nil <=> request.KEDAAnalysis
        /\ "hpa recommendations" \in printed <=> (request.HPAAnalysis /\ request.AnalyzeScaling)
        /\ "keda recommendations" \in printed <=> (request.KEDAAnalysis /\ request.AnalyzeScaling)

\* the parts of C30 about what is returned: nil error exactly when no
\* analyzed entry failed, the analysis of one of the entries, the
\* placeholder exactly for an empty MetricsData
ReturnsOneAnalysis ==
    /\ aerr = "none" <=> \A key \in DOMAIN answers : ~Outcome(key).err
    /\ (aerr = "none" /\ DOMAIN request.MetricsData # {}) =>
          \E key \in DOMAIN request.MetricsData : analysis = Outcome(key).result
    /\ aerr = "none" => (analysis = Placeholder <=> DOMAIN request.MetricsData = {})
    /\ aerr # "none" => analysis = NoAnalysis

\* C30: AnalyzeMetrics analyzes every entry of request.MetricsData before it
\* returns; the error is nil if and only if every entry's analysis succeeded;
\* the result is the analysis of one of the entries, or the placeholder
\* exactly when there is no entry.
C30_AnalyzesEveryEntry ==
    Analyzed => (DOMAIN answers = DOMAIN request.MetricsData /\ ReturnsOneAnalysis)

\* what holds instead: the call returns at the first entry whose analysis
\* fails, with the entries the range had not reached left unanalyzed
C30_StopsAtFirstFailure ==
    Analyzed =>
        /\ ReturnsOneAnalysis
        /\ aerr = "none" => DOMAIN answers = DOMAIN request.MetricsData
        /\ aerr # "none" =>
              /\ DOMAIN answers \cap atodo = {}
              /\ DOMAIN answers \cup atodo = DOMAIN request.MetricsData
              /\ Cardinality(DOMAIN answers \ DOMAIN results) = 1

-----------------------------------------------------------------------------
(* The LLM factory: which client CreateFromEnv returns for the flags and the
   environment. An unset environment variable reads as "". *)

\* part_001:18-24 and 26-32
NewOpenAI(apiKey) == [err |-> "", provider |-> "openai", apiKey |-> apiKey, model |-> "gpt-4o"]
NewOpenAIWithModel(apiKey, model) == [err |-> "", provider |-> "openai", apiKey |-> apiKey, model |-> model]

\* part_001:117-123 and the constructor that takes the model
NewClaude(apiKey) == [err |-> "", provider |-> "claude", apiKey |-> apiKey, model |-> "claude-sonnet-4-20250514"]
NewClaudeWithModel(apiKey, model) == [err |-> "", provider |-> "claude", apiKey |-> apiKey, model |-> model]

\* return nil, fmt.Errorf(...)
NoLLM(err) == [err |-> err, provider |-> "", apiKey |-> "", model |-> ""]

\* part_002:54-85
Factory_CreateFromEnv(env) ==
    LET provider == ToLower(env.LLM_PROVIDER) IN
    CASE provider = "openai" ->
            IF env.OPENAI_API_KEY = "" THEN NoLLM("OPENAI_API_KEY environment variable not set")
            ELSE IF env.OPENAI_MODEL # "" THEN NewOpenAIWithModel(env.OPENAI_API_KEY, env.OPENAI_MODEL)
            ELSE NewOpenAI(env.OPENAI_API_KEY)
      [] provider \in {"claude", ""} ->
            IF env.ANTHROPIC_API_KEY = "" THEN NoLLM("ANTHROPIC_API_KEY environment variable not set")
            ELSE IF env.CLAUDE_MODEL # "" THEN NewClaudeWithModel(env.ANTHROPIC_API_KEY, env.CLAUDE_MODEL)
            ELSE NewClaude(env.ANTHROPIC_API_KEY)
      [] OTHER -> NoLLM("unsupported LLM_PROVIDER")

\* part_002:94-136
CreateFromEnv(providerOverride, modelOverride, env) ==
    IF providerOverride # "" THEN
        LET provider == ToLower(providerOverride) IN
        CASE provider = "openai" ->
                IF env.OPENAI_API_KEY = "" THEN NoLLM("OPENAI_API_KEY environment variable not set")
                ELSE LET model == IF modelOverride = "" THEN env.OPENAI_MODEL ELSE modelOverride IN
                     IF model # "" THEN NewOpenAIWithModel(env.OPENAI_API_KEY, model)
                     ELSE NewOpenAI(env.OPENAI_API_KEY)
          [] provider = "claude" ->
                IF env.ANTHROPIC_API_KEY = "" THEN NoLLM("ANTHROPIC_API_KEY environment variable not set")
                ELSE LET model == IF modelOverride = "" THEN env.CLAUDE_MODEL ELSE modelOverride IN
                     IF model # "" THEN NewClaudeWithModel(env.ANTHROPIC_API_KEY, model)
                     ELSE NewClaude(env.ANTHROPIC_API_KEY)
          [] OTHER -> NoLLM("unsupported provider")
    ELSE Factory_CreateFromEnv(env)

\* values of --provider and of LLM_PROVIDER, values of --model and of the
\* model variables, and the environments
ProviderInputs == {"", "claude", "openai", "OpenAI", "gemini"}
ModelFlags == {"", "flag-model"}
Environments ==
    [LLM_PROVIDER : ProviderInputs,
     OPENAI_API_KEY : {"", "sk-openai"},
     ANTHROPIC_API_KEY : {"", "sk-anthropic"},
     OPENAI_MODEL : {"", "openai-env-model"},
     CLAUDE_MODEL : {"", "claude-env-model"}]

\* part_006:194 (and the debug command alike): the command calls
\* CreateFromEnv with its two flags
ApplyCreateFromEnv ==
    /\ fpc = "start"
    /\ fin.f = "CreateFromEnv"
    /\ fout' = CreateFromEnv(fin.providerOverride, fin.modelOverride, fin.env)
    /\ fpc' = "applied"
    /\ UNCHANGED <<fin, resourceCache, gvrCache, discVars, gatherVars, runVars, collectVars, analyzeVars>>
    /\ UNCHANGED issued

InitLLM ==
    /\ issued = {}
    /\ resourceCache = EmptyMap
    /\ gvrCache = EmptyMap
    /\ DiscoverIdle
    /\ GatherIdle
    /\ RunIdle
    /\ CollectIdle
    /\ AnalyzeIdle
    /\ fpc = "start"
    /\ fin \in { [f |-> "CreateFromEnv", providerOverride |-> p, modelOverride |-> m, env |-> e] :
                    p \in ProviderInputs, m \in ModelFlags, e \in Environments }
    /\ fout = <<>>

NextLLM == ApplyCreateFromEnv

SpecLLM == InitLLM /\ [][NextLLM]_vars

\* C22: with neither --provider nor LLM_PROVIDER set the provider follows the
\* API keys: Claude when ANTHROPIC_API_KEY is set, OpenAI when only
\* OPENAI_API_KEY is set, an error only when neither is set
C22_AutoDetect ==
    (Applied("CreateFromEnv") /\ fin.providerOverride = "" /\ fin.env.LLM_PROVIDER = "") =>
        /\ (fin.env.ANTHROPIC_API_KEY # "" => fout.err = "" /\ fout.provider = "claude")
        /\ ((fin.env.ANTHROPIC_API_KEY = "" /\ fin.env.OPENAI_API_KEY # "") =>
                fout.err = "" /\ fout.provider = "openai")
        /\ (fout.err # "" <=> (fin.env.ANTHROPIC_API_KEY = "" /\ fin.env.OPENAI_API_KEY = ""))

\* what holds instead: with no provider named the client is Claude's exactly
\* when ANTHROPIC_API_KEY is set, and the call fails otherwise
C22_ClaudeOrError ==
    (Applied("CreateFromEnv") /\ fin.providerOverride = "" /\ fin.env.LLM_PROVIDER = "") =>
        IF fin.env.ANTHROPIC_API_KEY # ""
        THEN fout.err = "" /\ fout.provider = "claude" /\ fout.apiKey = fin.env.ANTHROPIC_API_KEY
        ELSE fout.err = "ANTHROPIC_API_KEY environment variable not set"

\* C23: a non-empty --model is the model of the returned client whichever
\* way the provider was selected, and a non-empty --provider decides the
\* provider whatever LLM_PROVIDER says
C23_FlagsFirst ==
    (Applied("CreateFromEnv") /\ fout.err = "") =>
        /\ (fin.modelOverride # "" => fout.model = fin.modelOverride)
        /\ (fin.providerOverride # "" => fout.provider = ToLower(fin.providerOverride))

\* what holds instead: --model is the model of the client when --provider is
\* given too; --provider always decides the provider
C23_FlagsFirstWithProvider ==
    (Applied("CreateFromEnv") /\ fout.err = "") =>
        /\ ((fin.modelOverride # "" /\ fin.providerOverride # "") => fout.model = fin.modelOverride)
        /\ (fin.providerOverride # "" => fout.provider = ToLower(fin.providerOverride))
        /\ ((fin.providerOverride = "" /\ fout.provider = "claude") =>
                fout.model = (IF fin.env.CLAUDE_MODEL # "" THEN fin.env.CLAUDE_MODEL
                              ELSE "claude-sonnet-4-20250514"))
        /\ ((fin.providerOverride = "" /\ fout.provider = "openai") =>
                fout.model = (IF fin.env.OPENAI_MODEL # "" THEN fin.env.OPENAI_MODEL ELSE "gpt-4o"))

-----------------------------------------------------------------------------
(* The requests of the core: GatherResources, GatherMetricsResources,
   discoverResource, detectPrometheusService, the metrics Analyzer *)

\* one gather call, or one run of the metrics command
InitCore == InitGather \/ InitRun

NextCore == NextGather \/ NextRun

SpecCore == InitCore /\ [][NextCore]_vars

\* the verbs that leave the cluster as it is
ReadVerbs == {"get", "list", "discovery"}

\* C20: every request the core sends to the Kubernetes API is a get, a list
\* or a discovery read, never a create, update, patch or delete; the
\* requests of a GatherResources call are among those the metrics command
\* is charged with for it
C20_ReadOnly ==
    /\ \A r \in issued : r.verb \in ReadVerbs
    /\ (gpc # "idle" /\ gmode = "resources") => issued \subseteq GatherResourcesRequests

\* a run of the metrics command ended after the Service lookups, the gather
\* call and the Analyzer's two HPA reads
C20_Witness ==
    /\ rerr = "none"
    /\ typedGet("Service") \in issued
    /\ serverPreferredResources \in issued
    /\ typedList("Event") \in issued
    /\ typedGet("HorizontalPodAutoscaler.v1") \in issued

=============================================================================
